---- MODULE Spec2Model ----
(***************************************************************************)
(* StorageKeeperMap: a key-value table engine whose durable state lives    *)
(* in a ZooKeeper-like coordination service.  The model holds the node     *)
(* tree under one root path, the table instances that share it, and the    *)
(* steps of their operations; one action per coordination-service call.    *)
(***************************************************************************)
EXTENDS Integers, Sequences, FiniteSets, TLC

\* ---------------------------------------------------------------- bounds
NumInst == 2        \* table instances sharing the root path
MaxKey == 1         \* primary-key values are 0..MaxKey (a UInt8 key column)
MaxChunk == 2       \* rows of one chunk handed to a sink
MaxLimit == 2       \* largest keys_limit argument tried
MaxReq == 2         \* keys requested by one point read
MaxStreams == 2     \* num_streams of a read
MaxBlock == 2       \* max_block_size of a read
MaxIter == 2        \* iterations of a constructor's loop followed when processes share a root path
NumThreads == 2     \* threads that call getClient of one table
MaxHandle == 3      \* sessions the context establishes

Inst == 1..NumInst
Keys == 0..MaxKey
Vals == {0, 1}          \* values of the one non-key column (UInt8)
Rows == [k : Keys, v : Vals]

\* ------------------------------------------------------------ key codec
Pad == 61

Base64Char(i) ==
    IF i < 26 THEN 65 + i
    ELSE IF i < 52 THEN 97 + (i - 26)
    ELSE IF i < 62 THEN 48 + (i - 52)
    ELSE IF i = 62 THEN 45 ELSE 95

Base64Index(c) ==
    IF c >= 65 /\ c <= 90 THEN c - 65
    ELSE IF c >= 97 /\ c <= 122 THEN c - 97 + 26
    ELSE IF c >= 48 /\ c <= 57 THEN c - 48 + 52
    ELSE IF c = 45 THEN 62 ELSE 63

RECURSIVE base64Encode(_)
base64Encode(s) ==
    IF Len(s) = 0 THEN << >>
    ELSE IF Len(s) = 1 THEN
        << Base64Char(s[1] \div 4), Base64Char((s[1] % 4) * 16), Pad, Pad >>
    ELSE IF Len(s) = 2 THEN
        << Base64Char(s[1] \div 4),
           Base64Char((s[1] % 4) * 16 + s[2] \div 16),
           Base64Char((s[2] % 16) * 4), Pad >>
    ELSE
        << Base64Char(s[1] \div 4),
           Base64Char((s[1] % 4) * 16 + s[2] \div 16),
           Base64Char((s[2] % 16) * 4 + s[3] \div 64),
           Base64Char(s[3] % 64) >> \o base64Encode(SubSeq(s, 4, Len(s)))

RECURSIVE base64Decode(_)
base64Decode(t) ==
    IF Len(t) < 4 THEN << >>
    ELSE
        LET a == Base64Index(t[1])
            b == Base64Index(t[2])
            c == Base64Index(t[3])
            d == Base64Index(t[4])
            rest == base64Decode(SubSeq(t, 5, Len(t)))
        IN  IF t[3] = Pad THEN << a * 4 + b \div 16 >>
            ELSE IF t[4] = Pad THEN << a * 4 + b \div 16, (b % 16) * 16 + c \div 4 >>
            ELSE << a * 4 + b \div 16, (b % 16) * 16 + c \div 4, (c % 4) * 64 + d >> \o rest

\* serializeBinary / deserializeBinary of a UInt8 column value: one byte
serializeBinary(x) == << x % 256 >>
deserializeBinary(s) == s[1]

\* the node name of a key on the write path and on the key-scan read path
EncodedKey(k) == base64Encode(serializeBinary(k))

\* "ch_metadata"
MetadataName == << 99, 104, 95, 109, 101, 116, 97, 100, 97, 116, 97 >>

\* --------------------------------------------------------------- state
VARIABLES
    root,              \* the root path exists
    data,              \* data nodes under the root path: node name -> value blob
    metadata,          \* root/ch_metadata exists
    tables,            \* root/ch_metadata/tables exists
    markers,           \* instances whose table marker exists under tables
    dropped,           \* root/ch_metadata/dropped exists
    lock,              \* holder of the ephemeral root/ch_metadata/dropped/lock, 0 when absent
    pc,                \* per instance: the step its running operation is at
    table_is_valid,    \* per instance: std::optional<bool> table_is_valid
    last,              \* per instance: the operation last started and how it ended
    iter,              \* per instance: the constructor's loop counter i
    children,          \* per instance: the listing a recursive removal works on
    reclaims,          \* per instance: number of times it entered dropTable
    keys_limit,        \* per instance: effective keys limit
    new_values,        \* per instance: the sink's new_values map
    current_keys_num,  \* per instance: onFinish's current_keys_num
    exist_responses,   \* per instance: node name -> answer of asyncExists
    expect,            \* per instance: key -> the last row handed to the sink with that key
    stored,            \* key -> value of the row last committed for it and not removed since
    pre,               \* per instance: data nodes when its running operation started
    dataOps,           \* per instance: requests its last operation issued on the root path or data nodes
    observed,          \* the instances whose operations expect, stored, pre and dataOps record
    check_res,         \* per instance: how its last validity check was answered
    zookeeper_client,  \* the cached client handle of the table, 0 for nullptr
    zookeeper_mutex,   \* the thread that holds zookeeper_mutex, 0 when it is free
    established,       \* the number of sessions the context has established
    expired,           \* the handles whose session has expired
    call,              \* per thread: its call of getClient
    all_scan,          \* per instance: the read in progress is a full scan
    container,         \* per instance: the keys of the read: the sources' shared KeyContainer
    pipes,             \* per instance: the sources of the read, each with its it and end
    max_block_size,    \* per instance: max_block_size of the read
    requested_streams, \* per instance: num_streams of the read
    values,            \* per instance: how the futures of its last fetch ended
    result,            \* per instance: the rows its read has produced so far
    null_map           \* per instance: the null_map getByKeys filled

zkVars == << root, data, metadata, tables, markers, dropped, lock >>
instVars == << pc, table_is_valid, last >>
sinkVars == << keys_limit, new_values, current_keys_num, exist_responses, expect >>
clientVars == << zookeeper_client, zookeeper_mutex, established, expired, call >>
sourceVars == << all_scan, container, pipes, max_block_size, requested_streams, values, result, null_map >>
\* all but the client handle
othersVars == << zkVars, instVars, iter, children, reclaims, sinkVars, stored, pre, dataOps,
                 observed, check_res, sourceVars >>
vars == << zkVars, instVars, iter, children, reclaims, sinkVars, stored, pre, dataOps, observed, check_res, clientVars, sourceVars >>

Unset == "unset"
NoLock == 0
Blobs == { serializeBinary(v) : v \in Vals }
EncodedNames == { EncodedKey(k) : k \in Keys }
DataStates == UNION { [S -> Blobs] : S \in SUBSET EncodedNames }
\* the rows a set of data nodes holds, by key
StoredOf(d) ==
    [ k \in { x \in Keys : EncodedKey(x) \in DOMAIN d } |->
        deserializeBinary(d[EncodedKey(k)]) ]
NoOp == [op |-> "none", err |-> "none"]

\* children of the root path: the data nodes and the metadata directory
RootChildren == DOMAIN data \cup (IF metadata THEN {MetadataName} ELSE {})

Finish(i, e) ==
    /\ pc' = [pc EXCEPT ![i] = "idle"]
    /\ last' = [last EXCEPT ![i].err = e]

Goto(i, p) ==
    /\ pc' = [pc EXCEPT ![i] = p]
    /\ UNCHANGED last

\* one more request on the root path or a data node
Counted(i) ==
    dataOps' = IF i \in observed THEN [dataOps EXCEPT ![i] = @ + 1] ELSE dataOps

\* no rows handed to a sink yet
NoRows == [ last |-> << >>, dup |-> FALSE ]

\* no sink: the sink of an earlier query is gone when the next one starts
NoSink(i) ==
    /\ new_values' = [new_values EXCEPT ![i] = << >>]
    /\ exist_responses' = [exist_responses EXCEPT ![i] = << >>]
    /\ current_keys_num' = [current_keys_num EXCEPT ![i] = 0]
    /\ expect' = [expect EXCEPT ![i] = NoRows]
    /\ UNCHANGED keys_limit

\* no sources: the pipe of an earlier read is gone when the next query starts
NoSource(i) ==
    /\ all_scan' = [all_scan EXCEPT ![i] = FALSE]
    /\ container' = [container EXCEPT ![i] = << >>]
    /\ pipes' = [pipes EXCEPT ![i] = << >>]
    /\ max_block_size' = [max_block_size EXCEPT ![i] = 1]
    /\ requested_streams' = [requested_streams EXCEPT ![i] = 1]
    /\ values' = [values EXCEPT ![i] = << >>]
    /\ result' = [result EXCEPT ![i] = << >>]
    /\ null_map' = [null_map EXCEPT ![i] = << >>]

\* no read has run
InitSource ==
    /\ all_scan = [i \in Inst |-> FALSE]
    /\ container = [i \in Inst |-> << >>]
    /\ pipes = [i \in Inst |-> << >>]
    /\ max_block_size = [i \in Inst |-> 1]
    /\ requested_streams = [i \in Inst |-> 1]
    /\ values = [i \in Inst |-> << >>]
    /\ result = [i \in Inst |-> << >>]
    /\ null_map = [i \in Inst |-> << >>]

\* -------------------------------------------------------- client handle
Threads == 1..NumThreads
NullClient == 0
NoThread == 0

\* a thread that is not in getClient; the fields of a call are the handle
\* the call found cached, whether that handle was missing or expired when
\* the call looked at it, whether the call asked the context for a session
\* and synchronized it, and the handle it returned
NoCall ==
    [ pc |-> "idle", cached |-> NullClient, stale |-> FALSE, connected |-> FALSE,
      synced |-> FALSE, ret |-> NullClient ]

\* no thread has asked for the client
NoClient ==
    /\ zookeeper_client = NullClient
    /\ zookeeper_mutex = NoThread
    /\ established = 0
    /\ expired = {}
    /\ call = [t \in Threads |-> NoCall]

\* the session of a handle ends
Expire(h) ==
    /\ h \in 1..established
    /\ h \notin expired
    /\ expired' = expired \cup { h }
    /\ UNCHANGED << zookeeper_client, zookeeper_mutex, established, call >>
    /\ UNCHANGED othersVars

\* std::lock_guard lock{zookeeper_mutex}
GetClient_lock(t) ==
    /\ call[t].pc = "idle"
    /\ zookeeper_mutex = NoThread
    /\ zookeeper_mutex' = t
    /\ call' = [call EXCEPT ![t] = [NoCall EXCEPT !.pc = "check"]]
    /\ UNCHANGED << zookeeper_client, established, expired >>
    /\ UNCHANGED othersVars

\* a test of the cached handle that does not ask whether it is expired
Stale_nullOnly == zookeeper_client = NullClient

\* !zookeeper_client || zookeeper_client->expired()
Stale == zookeeper_client = NullClient \/ zookeeper_client \in expired

\* the test of the cached handle, and zookeeper_client = nullptr
GetClient_check(t) ==
    /\ call[t].pc = "check"
    /\ call' = [call EXCEPT ![t].cached = zookeeper_client,
                            ![t].stale = zookeeper_client = NullClient
                                            \/ zookeeper_client \in expired,
                            ![t].pc = IF Stale THEN "connect" ELSE "return"]
    /\ zookeeper_client' = IF Stale THEN NullClient ELSE zookeeper_client
    /\ UNCHANGED << zookeeper_mutex, established, expired >>
    /\ UNCHANGED othersVars

\* getContext()->getZooKeeper(), getAuxiliaryZooKeeper(zookeeper_name): a
\* new session
NewSession == established + 1

\* the context is asked for a session: it establishes one, or it throws and
\* getClient ends with zookeeper_client empty
GetClient_connect(t) ==
    /\ call[t].pc = "connect"
    /\ \/ /\ NewSession <= MaxHandle
          /\ zookeeper_client' = NewSession
          /\ established' = NewSession
          /\ call' = [call EXCEPT ![t].connected = TRUE, ![t].pc = "sync"]
          /\ UNCHANGED zookeeper_mutex
       \/ /\ call' = [call EXCEPT ![t].pc = "idle"]
          /\ zookeeper_mutex' = NoThread
          /\ UNCHANGED << zookeeper_client, established >>
    /\ UNCHANGED expired
    /\ UNCHANGED othersVars

\* zookeeper_client->sync(rootKeeperPath()); it throws when the session has
\* expired meanwhile
GetClient_sync(t) ==
    /\ call[t].pc = "sync"
    /\ IF zookeeper_client \in expired
       THEN /\ call' = [call EXCEPT ![t].pc = "idle"]
            /\ zookeeper_mutex' = NoThread
       ELSE /\ call' = [call EXCEPT ![t].synced = TRUE, ![t].pc = "return"]
            /\ UNCHANGED zookeeper_mutex
    /\ UNCHANGED << zookeeper_client, established, expired >>
    /\ UNCHANGED othersVars

\* return zookeeper_client
GetClient_return(t) ==
    /\ call[t].pc = "return"
    /\ call' = [call EXCEPT ![t].ret = zookeeper_client, ![t].pc = "idle"]
    /\ zookeeper_mutex' = NoThread
    /\ UNCHANGED << zookeeper_client, established, expired >>
    /\ UNCHANGED othersVars

\* ------------------------------------------------------- validity check
HardwareErrors == { "ZCONNECTIONLOSS" }

\* the check transaction on the table marker
CheckCode(i) == IF i \in markers THEN "ZOK" ELSE "ZNONODE"

\* a check that takes a missing marker for a valid table
isTableValid_anyAnswer(i, code) ==
    IF table_is_valid[i] # Unset THEN table_is_valid[i]
    ELSE IF code \in HardwareErrors THEN Unset
    ELSE "true"

\* a check that caches false when the connection is lost
isTableValid_falseOnError(i, code) ==
    IF table_is_valid[i] # Unset THEN table_is_valid[i]
    ELSE IF code = "ZOK" THEN "true"
    ELSE "false"

\* a check that runs its transaction at every call
isTableValid_recheck(i, code) ==
    IF code = "ZOK" THEN "true"
    ELSE IF code \in HardwareErrors THEN table_is_valid[i]
    ELSE "false"

\* the value isTableValid caches and returns, given the outcome of its check
isTableValid(i, code) ==
    IF table_is_valid[i] # Unset THEN table_is_valid[i]
    ELSE IF code = "ZOK" THEN "true"
    ELSE IF code \in HardwareErrors THEN Unset
    ELSE "false"

\* how a call of isTableValid whose check transaction would end with code
\* was answered: from the cached flag, or by the transaction
Answered(i, code) ==
    IF i \in observed
    THEN [check_res EXCEPT ![i] = IF table_is_valid[i] # Unset THEN "cached" ELSE code]
    ELSE check_res

\* checkTable<true>: the operation goes on only when the table is known valid
checkTable(v) == v = "true"

\* the outcomes of the check transaction when the connection may be lost
CheckCodes(i) == { CheckCode(i) } \cup HardwareErrors

\* where an operation goes on after its validity check
FirstStep(op) ==
    CASE op = "read" -> "read_keys"
      [] op = "write" -> "consume"
      [] op = "truncate" -> "truncate_list"
      [] op = "drop" -> "drop_remove"

\* checkTable<true> at the start of read, write, truncate and drop
CheckTable(i, op, next, code) ==
    /\ pc[i] = "idle"
    /\ LET v == isTableValid(i, code) IN
        /\ table_is_valid' = [table_is_valid EXCEPT ![i] = v]
        /\ IF checkTable(v)
           THEN /\ pc' = [pc EXCEPT ![i] = next]
                /\ last' = [last EXCEPT ![i] = [op |-> op, err |-> "running"]]
           ELSE /\ pc' = pc
                /\ last' = [last EXCEPT ![i] = [op |-> op, err |-> "INVALID_STATE"]]
    /\ pre' = IF i \in observed THEN [pre EXCEPT ![i] = data] ELSE pre
    /\ dataOps' = [dataOps EXCEPT ![i] = 0]
    /\ check_res' = Answered(i, code)
    /\ UNCHANGED << observed, clientVars >>

\* the first step of read, write, truncate and drop, the check transaction
\* answering code
Begin(i, op, code) ==
    /\ CheckTable(i, op, FirstStep(op), code)
    /\ NoSink(i)
    /\ NoSource(i)
    /\ UNCHANGED << zkVars, iter, children, reclaims, stored >>

\* the constructor in attach mode: checkTable<false> and nothing else
Attach(i, code) ==
    /\ pc[i] = "unconstructed"
    /\ table_is_valid' = [table_is_valid EXCEPT ![i] = isTableValid(i, code)]
    /\ pc' = [pc EXCEPT ![i] = "idle"]
    /\ last' = [last EXCEPT ![i] = [op |-> "attach", err |-> "none"]]
    /\ check_res' = Answered(i, code)
    /\ UNCHANGED << zkVars, observed, clientVars, iter, sourceVars, children, reclaims, sinkVars,
                    stored, pre, dataOps >>

\* ----------------------------------------------------------------- drop
\* tryMulti(remove tables, create dropped, create dropped/lock)
DropOpsCode ==
    IF ~tables THEN "ZNONODE"
    ELSE IF markers # {} THEN "ZNOTEMPTY"
    ELSE IF dropped THEN "ZNODEEXISTS"
    ELSE IF ~metadata THEN "ZNONODE"
    ELSE "ZOK"

\* tryMulti(remove dropped/lock, remove dropped, remove ch_metadata)
ReclaimOpsCode ==
    IF lock = NoLock \/ ~dropped \/ ~metadata THEN "ZNONODE"
    ELSE IF tables THEN "ZNOTEMPTY"
    ELSE "ZOK"

Drop_begin(i) == Begin(i, "drop", CheckCode(i))

\* a drop that removes the marker of every table
Drop_remove_all(i) ==
    /\ pc[i] = "drop_remove"
    /\ IF i \in markers
       THEN /\ markers' = {}
            /\ Goto(i, "drop_getChildren")
       ELSE /\ Finish(i, "KEEPER_EXCEPTION")
            /\ UNCHANGED markers
    /\ UNCHANGED << root, data, metadata, tables, dropped, lock, table_is_valid, observed, check_res, clientVars, iter, sourceVars,
                    children, reclaims, sinkVars, stored, pre, dataOps >>

Drop_remove(i) ==
    /\ pc[i] = "drop_remove"
    /\ IF i \in markers
       THEN /\ markers' = markers \ {i}
            /\ Goto(i, "drop_getChildren")
       ELSE /\ Finish(i, "KEEPER_EXCEPTION")
            /\ UNCHANGED markers
    /\ UNCHANGED << root, data, metadata, tables, dropped, lock, table_is_valid, observed, check_res, clientVars, iter, sourceVars,
                    children, reclaims, sinkVars, stored, pre, dataOps >>

\* a drop whose test of the listing is inverted
Drop_getChildren_inverted(i) ==
    /\ pc[i] = "drop_getChildren"
    /\ IF ~tables THEN Finish(i, "KEEPER_EXCEPTION")
       ELSE IF markers = {} THEN Finish(i, "none")
       ELSE Goto(i, "drop_multi")
    /\ UNCHANGED << zkVars, table_is_valid, observed, check_res, clientVars, iter, sourceVars, children, reclaims, sinkVars, stored, pre, dataOps >>

Drop_getChildren(i) ==
    /\ pc[i] = "drop_getChildren"
    /\ IF ~tables THEN Finish(i, "KEEPER_EXCEPTION")
       ELSE IF markers # {} THEN Finish(i, "none")
       ELSE Goto(i, "drop_multi")
    /\ UNCHANGED << zkVars, table_is_valid, observed, check_res, clientVars, iter, sourceVars, children, reclaims, sinkVars, stored, pre, dataOps >>

\* a drop that goes on to the reclaim whatever its transaction answered
Drop_multi_noReturn(i) ==
    /\ pc[i] = "drop_multi"
    /\ IF DropOpsCode = "ZOK"
       THEN /\ tables' = FALSE
            /\ dropped' = TRUE
            /\ lock' = i
       ELSE UNCHANGED << tables, dropped, lock >>
    /\ Goto(i, "dropTable")
    /\ UNCHANGED << root, data, metadata, markers, table_is_valid, observed, check_res, clientVars, iter, sourceVars, children, reclaims,
                    sinkVars, stored, pre, dataOps >>

Drop_multi(i) ==
    /\ pc[i] = "drop_multi"
    /\ IF DropOpsCode = "ZOK"
       THEN /\ tables' = FALSE
            /\ dropped' = TRUE
            /\ lock' = i
            /\ Goto(i, "dropTable")
       ELSE /\ Finish(i, "none")
            /\ UNCHANGED << tables, dropped, lock >>
    /\ UNCHANGED << root, data, metadata, markers, table_is_valid, observed, check_res, clientVars, iter, sourceVars, children, reclaims,
                    sinkVars, stored, pre, dataOps >>

\* -------------------------------------------------------------- reclaim
\* a removal that finds no child to remove
DropTable_list_nothing(i) ==
    /\ pc[i] = "dropTable"
    /\ children' = [children EXCEPT ![i] = {}]
    /\ reclaims' = [reclaims EXCEPT ![i] = @ + 1]
    /\ Counted(i)
    /\ Goto(i, "dropTable_remove")
    /\ UNCHANGED << zkVars, table_is_valid, observed, check_res, clientVars, iter, sourceVars, sinkVars, stored, pre >>

\* removeChildrenRecursive(root_path, keep ch_metadata): list the children ...
DropTable_list(i) ==
    /\ pc[i] = "dropTable"
    /\ children' = [children EXCEPT ![i] = RootChildren \ {MetadataName}]
    /\ reclaims' = [reclaims EXCEPT ![i] = @ + 1]
    /\ Counted(i)
    /\ Goto(i, "dropTable_remove")
    /\ UNCHANGED << zkVars, table_is_valid, observed, check_res, clientVars, iter, sourceVars, sinkVars, stored, pre >>

\* the holder of the lock goes out of scope without setAlreadyRemoved: the
\* node of the lock is removed then, or stays until the session ends
Released(i) == IF lock = i THEN { i, NoLock } ELSE { lock }

\* an exception leaves the running operation; a constructor that throws
\* leaves no table
Throw(i, e) ==
    /\ pc' = [pc EXCEPT ![i] = IF last[i].op = "create" THEN "failed" ELSE "idle"]
    /\ last' = [last EXCEPT ![i].err = e]

\* ... and remove them in one transaction, which fails when one is gone
DropTable_remove(i) ==
    /\ pc[i] = "dropTable_remove"
    /\ IF children[i] \subseteq DOMAIN data
       THEN /\ data' = [n \in DOMAIN data \ children[i] |-> data[n]]
            /\ stored' = IF i \in observed THEN << >> ELSE stored
            /\ Goto(i, "dropTable_multi")
            /\ UNCHANGED lock
       ELSE /\ Throw(i, "KEEPER_EXCEPTION")
            /\ lock' \in Released(i)
            /\ UNCHANGED << data, stored >>
    /\ children' = [children EXCEPT ![i] = {}]
    /\ Counted(i)
    /\ UNCHANGED << root, metadata, tables, markers, dropped, table_is_valid, observed, check_res, clientVars, iter,
                    sourceVars, reclaims, sinkVars, pre >>

\* the last transaction of dropTable; drop returns after it, the constructor
\* goes on to create its nodes when dropTable returned true and continues
\* its loop when it returned false
DropTable_multi(i) ==
    /\ pc[i] = "dropTable_multi"
    /\ CASE ReclaimOpsCode = "ZOK" ->
              /\ lock' = NoLock
              /\ dropped' = FALSE
              /\ metadata' = FALSE
              /\ IF last[i].op = "create"
                 THEN Goto(i, "loop_metadata")
                 ELSE Finish(i, "none")
              /\ UNCHANGED iter
         [] ReclaimOpsCode = "ZNONODE" ->
              /\ Throw(i, "LOGICAL_ERROR")
              /\ lock' \in Released(i)
              /\ UNCHANGED << dropped, metadata, iter >>
         [] OTHER ->
              /\ IF last[i].op = "create"
                 THEN /\ Goto(i, "loop_exists")
                      /\ iter' = [iter EXCEPT ![i] = @ + 1]
                 ELSE /\ Finish(i, "none")
                      /\ UNCHANGED iter
              /\ lock' \in Released(i)
              /\ UNCHANGED << dropped, metadata >>
    /\ UNCHANGED << root, data, tables, markers, table_is_valid, observed, check_res, clientVars, sourceVars,
                    children, reclaims, sinkVars, stored, pre, dataOps >>

\* --------------------------------------------------------- construction
\* extractZooKeeperPath: the path after the name of an auxiliary zookeeper
RECURSIVE extractZooKeeperPath(_)
extractZooKeeperPath(path) ==
    IF path = << >> THEN << >>
    ELSE IF Head(path) = "/" THEN path
    ELSE IF Head(path) = ":" THEN Tail(path)
    ELSE IF \E j \in 1..Len(path) : path[j] = ":" THEN extractZooKeeperPath(Tail(path))
    ELSE path

\* checks that let a root path pass that does not start with '/'
ConfigError_anyPath(path_prefix, has_uuid, root_path_) ==
    IF path_prefix = << >> THEN "BAD_ARGUMENTS: keeper_map_path_prefix is not defined"
    ELSE IF ~has_uuid THEN "BAD_ARGUMENTS: database without UUID"
    ELSE IF extractZooKeeperPath(root_path_) = << >>
    THEN "BAD_ARGUMENTS: root_path should not be empty"
    ELSE "none"

\* the exception of the checks on the configuration and the arguments
ConfigError(path_prefix, has_uuid, root_path_) ==
    IF path_prefix = << >> THEN "BAD_ARGUMENTS: keeper_map_path_prefix is not defined"
    ELSE IF ~has_uuid THEN "BAD_ARGUMENTS: database without UUID"
    ELSE IF extractZooKeeperPath(root_path_) = << >>
    THEN "BAD_ARGUMENTS: root_path should not be empty"
    ELSE IF Head(extractZooKeeperPath(root_path_)) # "/"
    THEN "BAD_ARGUMENTS: root_path should start with '/'"
    ELSE "none"

\* a keys limit that is the smaller of the two numbers
EffectiveKeysLimit_smaller(keys_limit_, config_keys_limit) ==
    IF keys_limit_ > config_keys_limit THEN config_keys_limit ELSE keys_limit_

\* keys_limit after the comparison with keeper_map_keys_limit
EffectiveKeysLimit(keys_limit_, config_keys_limit) ==
    IF config_keys_limit # 0 /\ keys_limit_ > config_keys_limit
    THEN config_keys_limit
    ELSE keys_limit_

PathPrefixes == { << >>, << "/", "p" >> }
RootPaths == { << >>, << "r" >>, << "/", "r" >>, << "a", ":", "/", "r" >> }

\* the constructor without attach, up to its loop: the checks, the keys
\* limit and the root path
Construct(i, path_prefix, has_uuid, root_path_, create_missing_root_path, keys_limit_, config_keys_limit) ==
    /\ pc[i] = "unconstructed"
    /\ LET e == ConfigError(path_prefix, has_uuid, root_path_)
           args == [ path_prefix |-> path_prefix, has_uuid |-> has_uuid,
                     root_path_ |-> root_path_,
                     create_missing_root_path |-> create_missing_root_path,
                     keys_limit_ |-> keys_limit_,
                     config_keys_limit |-> config_keys_limit ]
       IN  IF e # "none"
           THEN /\ pc' = [pc EXCEPT ![i] = "failed"]
                /\ last' = [last EXCEPT ![i] = [ op |-> "create", err |-> e, args |-> args ]]
                /\ UNCHANGED << root, keys_limit >>
           ELSE /\ keys_limit' = [keys_limit EXCEPT ![i] =
                                     EffectiveKeysLimit(keys_limit_, config_keys_limit)]
                /\ IF ~root /\ ~create_missing_root_path
                   THEN /\ pc' = [pc EXCEPT ![i] = "failed"]
                        /\ last' = [last EXCEPT ![i] =
                                       [ op |-> "create",
                                         err |-> "BAD_ARGUMENTS: path doesn't exist",
                                         args |-> args ]]
                        /\ UNCHANGED root
                   ELSE /\ root' = TRUE
                        /\ pc' = [pc EXCEPT ![i] = "loop_exists"]
                        /\ last' = [last EXCEPT ![i] =
                                       [ op |-> "create", err |-> "running", args |-> args ]]
    /\ iter' = [iter EXCEPT ![i] = 0]
    /\ pre' = IF i \in observed THEN [pre EXCEPT ![i] = data] ELSE pre
    /\ UNCHANGED << data, metadata, tables, markers, dropped, lock, table_is_valid, observed, check_res, clientVars,
                    sourceVars, children, reclaims, new_values, current_keys_num,
                    exist_responses, expect, stored, dataOps >>

\* a loop of twice as many iterations
RetryBudget_twice == 2 * 1000

\* for (size_t i = 0; i < 1000; ++i)
RetryBudget == 1000

\* the head of an iteration: the loop condition and exists(dropped_path);
\* last keeps the arguments of the constructor until its loop starts
Loop_exists(i) ==
    /\ pc[i] = "loop_exists"
    /\ pc' = [pc EXCEPT ![i] = IF iter[i] >= RetryBudget THEN "failed"
                               ELSE IF dropped THEN "loop_lock"
                               ELSE "loop_metadata"]
    /\ last' = [last EXCEPT ![i] =
                   [ op |-> "create",
                     err |-> IF iter[i] >= RetryBudget
                             THEN "BAD_ARGUMENTS: cannot create metadata"
                             ELSE "running" ]]
    /\ UNCHANGED << zkVars, table_is_valid, observed, check_res, clientVars, iter, sourceVars, children, reclaims,
                    sinkVars, stored, pre, dataOps >>

\* a lock that is taken although it is held
LockCode_always == IF ~dropped THEN "ZNONODE" ELSE "ZOK"

\* tryCreate(dropped_lock_path, ephemeral)
LockCode ==
    IF ~dropped THEN "ZNONODE"
    ELSE IF lock # NoLock THEN "ZNODEEXISTS"
    ELSE "ZOK"

\* a constructor that runs dropTable whenever the dropped marker is there,
\* with the lock or without it
Loop_tryCreateLock_unlocked(i) ==
    /\ pc[i] = "loop_lock"
    /\ IF LockCode # "ZNONODE"
       THEN /\ lock' = IF LockCode = "ZOK" THEN i ELSE lock
            /\ Goto(i, "dropTable")
       ELSE /\ Goto(i, "loop_metadata")
            /\ UNCHANGED lock
    /\ UNCHANGED << root, data, metadata, tables, markers, dropped, table_is_valid, observed, check_res, clientVars,
                    iter, sourceVars, children, reclaims, sinkVars, stored, pre, dataOps >>

\* the leftover nodes: with the lock the constructor runs dropTable, without
\* it (ZNONODE, ZNODEEXISTS) it goes on in the same iteration
Loop_tryCreateLock(i) ==
    /\ pc[i] = "loop_lock"
    /\ IF LockCode = "ZOK"
       THEN /\ lock' = i
            /\ Goto(i, "dropTable")
       ELSE /\ Goto(i, "loop_metadata")
            /\ UNCHANGED lock
    /\ UNCHANGED << root, data, metadata, tables, markers, dropped, table_is_valid, observed, check_res, clientVars,
                    iter, sourceVars, children, reclaims, sinkVars, stored, pre, dataOps >>

\* createIfNotExists(metadata_path)
Loop_createMetadata(i) ==
    /\ pc[i] = "loop_metadata"
    /\ metadata' = TRUE
    /\ Goto(i, "loop_tables")
    /\ UNCHANGED << root, data, tables, markers, dropped, lock, table_is_valid, observed, check_res, clientVars,
                    iter, sourceVars, children, reclaims, sinkVars, stored, pre, dataOps >>

\* createIfNotExists(tables_path): throws when the metadata directory is gone
Loop_createTables(i) ==
    /\ pc[i] = "loop_tables"
    /\ IF metadata
       THEN /\ tables' = TRUE
            /\ Goto(i, "loop_marker")
       ELSE /\ Throw(i, "KEEPER_EXCEPTION")
            /\ UNCHANGED tables
    /\ UNCHANGED << root, data, metadata, markers, dropped, lock, table_is_valid, observed, check_res, clientVars,
                    iter, sourceVars, children, reclaims, sinkVars, stored, pre, dataOps >>

\* tryCreate(table_path): ZOK makes the table valid, ZNONODE is retried
Loop_createMarker(i) ==
    /\ pc[i] = "loop_marker"
    /\ IF tables
       THEN /\ markers' = markers \cup {i}
            /\ table_is_valid' = [table_is_valid EXCEPT ![i] = "true"]
            /\ Finish(i, "none")
            /\ UNCHANGED iter
       ELSE /\ iter' = [iter EXCEPT ![i] = @ + 1]
            /\ Goto(i, "loop_exists")
            /\ UNCHANGED << markers, table_is_valid >>
    /\ UNCHANGED << root, data, metadata, tables, dropped, lock, observed, check_res, clientVars, sourceVars,
                    children, reclaims, sinkVars, stored, pre, dataOps >>

\* ------------------------------------------------------------ truncate
Truncate_begin(i) == Begin(i, "truncate", CheckCode(i))

\* tryRemoveChildrenRecursive(root_path, keep ch_metadata): list the children ...
Truncate_list(i) ==
    /\ pc[i] = "truncate_list"
    /\ children' = [children EXCEPT ![i] = RootChildren \ {MetadataName}]
    /\ Counted(i)
    /\ Goto(i, "truncate_remove")
    /\ UNCHANGED << zkVars, table_is_valid, observed, check_res, clientVars, iter, sourceVars, reclaims, sinkVars, stored, pre >>

\* a removal that takes the metadata directory along
Truncate_remove_all(i) ==
    /\ pc[i] = "truncate_remove"
    /\ data' = << >>
    /\ metadata' = FALSE
    /\ tables' = FALSE
    /\ markers' = {}
    /\ stored' = IF i \in observed THEN << >> ELSE stored
    /\ Counted(i)
    /\ children' = [children EXCEPT ![i] = {}]
    /\ Finish(i, "none")
    /\ UNCHANGED << root, dropped, lock, table_is_valid, observed, check_res, clientVars, iter, sourceVars,
                    reclaims, sinkVars, pre >>

\* ... and remove those that are still there
Truncate_remove(i) ==
    /\ pc[i] = "truncate_remove"
    /\ data' = [n \in DOMAIN data \ children[i] |-> data[n]]
    /\ stored' = IF i \in observed THEN << >> ELSE stored
    /\ Counted(i)
    /\ children' = [children EXCEPT ![i] = {}]
    /\ Finish(i, "none")
    /\ UNCHANGED << root, metadata, tables, markers, dropped, lock, table_is_valid, observed, check_res, clientVars, iter, sourceVars,
                    reclaims, sinkVars, pre >>

\* ----------------------------------------------------------- write path
\* std::string order of node names
RECURSIVE NameLess(_, _)
NameLess(a, b) ==
    IF Len(a) = 0 THEN Len(b) > 0
    ELSE IF Len(b) = 0 THEN FALSE
    ELSE IF a[1] # b[1] THEN a[1] < b[1]
    ELSE NameLess(Tail(a), Tail(b))

RECURSIVE SortNames(_)
SortNames(S) ==
    IF S = {} THEN << >>
    ELSE LET m == CHOOSE x \in S : \A y \in S \ {x} : NameLess(x, y)
         IN  << m >> \o SortNames(S \ {m})

\* map[key] = value
Put(map, n, b) == [ x \in DOMAIN map \cup {n} |-> IF x = n THEN b ELSE map[x] ]

\* a map that keeps the value a key already has
PutIfAbsent(map, n, b) ==
    [ x \in DOMAIN map \cup {n} |-> IF x \in DOMAIN map THEN map[x] ELSE b ]

\* a loop of consume that keeps the first value of a key (emplace)
RECURSIVE ConsumeRows_keepFirst(_, _)
ConsumeRows_keepFirst(map, chunk) ==
    IF chunk = << >> THEN map
    ELSE ConsumeRows_keepFirst(
             PutIfAbsent(map, EncodedKey(Head(chunk).k), serializeBinary(Head(chunk).v)),
             Tail(chunk))

\* the loop of consume over the rows of a chunk
RECURSIVE ConsumeRows(_, _)
ConsumeRows(map, chunk) ==
    IF chunk = << >> THEN map
    ELSE ConsumeRows(Put(map, EncodedKey(Head(chunk).k), serializeBinary(Head(chunk).v)),
                     Tail(chunk))

Chunks == UNION { [1..n -> Rows] : n \in 1..MaxChunk }

\* the value of the last row of a chunk that has key k
LastRowValue(chunk, k) ==
    chunk[CHOOSE j \in 1..Len(chunk) :
            /\ chunk[j].k = k
            /\ \A l \in (j + 1)..Len(chunk) : chunk[l].k # k].v

\* the rows handed to a sink so far: for each key the value of its last row,
\* and whether some key came in more than one row
ExpectAfter(e, chunk) ==
    [ last |-> [ k \in DOMAIN e.last \cup { chunk[j].k : j \in 1..Len(chunk) } |->
                   IF \E j \in 1..Len(chunk) : chunk[j].k = k
                   THEN LastRowValue(chunk, k) ELSE e.last[k] ],
      dup |-> \/ e.dup
              \/ \E j \in 1..Len(chunk) : chunk[j].k \in DOMAIN e.last
              \/ \E j, l \in 1..Len(chunk) : j # l /\ chunk[j].k = chunk[l].k ]

\* StorageKeeperMap::write: a new sink
Write_begin(i) == Begin(i, "write", CheckCode(i))

Consume(i, chunk) ==
    /\ pc[i] = "consume"
    /\ new_values' = [new_values EXCEPT ![i] = ConsumeRows(@, chunk)]
    /\ expect' = IF i \in observed THEN [expect EXCEPT ![i] = ExpectAfter(@, chunk)] ELSE expect
    /\ UNCHANGED << zkVars, instVars, observed, check_res, clientVars, iter, sourceVars, children, reclaims, keys_limit,
                    current_keys_num, exist_responses, stored, pre, dataOps >>

\* size_t arithmetic wraps around; the model wraps at 2^30, which keeps every
\* sum within the 32-bit integers of the checker
SizeRange == 1073741824

\* onFinish up to the asyncExists calls: the count of the root path's children
OnFinish_get(i) ==
    /\ pc[i] = "consume"
    /\ IF keys_limit[i] # 0
       THEN /\ current_keys_num' =
                   [current_keys_num EXCEPT ![i] = (Cardinality(RootChildren) - 1) % SizeRange]
            /\ Counted(i)
       ELSE UNCHANGED << current_keys_num, dataOps >>
    /\ Goto(i, IF DOMAIN new_values[i] = {} THEN "onFinish_multi" ELSE "onFinish_exists")
    /\ UNCHANGED << zkVars, table_is_valid, observed, check_res, clientVars, iter, sourceVars, children, reclaims, keys_limit,
                    new_values, exist_responses, expect, stored, pre >>

\* the keys of new_values in the order their asyncExists calls are answered
ExistsOrder(i) == SortNames(DOMAIN new_values[i])

\* the answer to the next asyncExists
OnFinish_exists(i) ==
    /\ pc[i] = "onFinish_exists"
    /\ LET n == ExistsOrder(i)[Len(exist_responses[i]) + 1] IN
        exist_responses' = [exist_responses EXCEPT ![i] =
            Append(@, [key |-> n, found |-> n \in DOMAIN data])]
    /\ Counted(i)
    /\ Goto(i, IF Len(exist_responses[i]) + 1 = Len(ExistsOrder(i))
               THEN "onFinish_multi" ELSE "onFinish_exists")
    /\ UNCHANGED << zkVars, table_is_valid, observed, check_res, clientVars, iter, sourceVars, children, reclaims, keys_limit,
                    new_values, current_keys_num, expect, stored, pre >>

\* the requests staged from the answers: a set for a key found, a create otherwise
Requests(i) ==
    [ j \in 1..Len(exist_responses[i]) |->
        [ type |-> IF exist_responses[i][j].found THEN "set" ELSE "create",
          path |-> exist_responses[i][j].key,
          value |-> new_values[i][exist_responses[i][j].key] ] ]

NewKeysNum(i) == Cardinality({ j \in 1..Len(exist_responses[i]) : ~exist_responses[i][j].found })

\* a limit check that already rejects a batch that reaches the limit
LimitExceeded_offByOne(i) ==
    /\ NewKeysNum(i) # 0
    /\ keys_limit[i] # 0
    /\ (current_keys_num[i] + NewKeysNum(i)) % SizeRange >= keys_limit[i]

\* a limit check that leaves out the keys the root path holds already
LimitExceeded_newOnly(i) ==
    /\ NewKeysNum(i) # 0
    /\ keys_limit[i] # 0
    /\ NewKeysNum(i) % SizeRange > keys_limit[i]

\* a limit check that does not ask whether the batch has new keys
LimitExceeded_anyBatch(i) ==
    /\ keys_limit[i] # 0
    /\ (current_keys_num[i] + NewKeysNum(i)) % SizeRange > keys_limit[i]

LimitExceeded(i) ==
    /\ NewKeysNum(i) # 0
    /\ keys_limit[i] # 0
    /\ (current_keys_num[i] + NewKeysNum(i)) % SizeRange > keys_limit[i]

\* whether a multi of the requests is applied on the data nodes d
MultiApplies(reqs, d) ==
    \A j \in 1..Len(reqs) :
        IF reqs[j].type = "set" THEN reqs[j].path \in DOMAIN d
        ELSE reqs[j].path \notin DOMAIN d

\* the data nodes after all the requests
RECURSIVE ApplyAll(_, _)
ApplyAll(reqs, d) ==
    IF reqs = << >> THEN d
    ELSE ApplyAll(Tail(reqs), Put(d, Head(reqs).path, Head(reqs).value))

\* the data nodes after the requests issued one by one, each on its own
RECURSIVE ApplyEach(_, _)
ApplyEach(reqs, d) ==
    IF reqs = << >> THEN d
    ELSE IF (Head(reqs).type = "set") = (Head(reqs).path \in DOMAIN d)
         THEN ApplyEach(Tail(reqs), Put(d, Head(reqs).path, Head(reqs).value))
         ELSE ApplyEach(Tail(reqs), d)

\* the rows by key after a commit of the rows e
StoredAfter(st, e) ==
    [ k \in DOMAIN st \cup DOMAIN e |-> IF k \in DOMAIN e THEN e[k] ELSE st[k] ]

\* a finalization that issues the staged requests one by one instead of in
\* one multi
OnFinish_multi_eachAlone(i) ==
    /\ pc[i] = "onFinish_multi"
    /\ IF LimitExceeded(i)
       THEN /\ Finish(i, "LIMIT_EXCEEDED")
            /\ UNCHANGED << data, stored, dataOps >>
       ELSE /\ Counted(i)
            /\ data' = ApplyEach(Requests(i), data)
            /\ IF MultiApplies(Requests(i), data)
               THEN /\ stored' = IF i \in observed THEN StoredAfter(stored, expect[i].last) ELSE stored
                    /\ Finish(i, "none")
               ELSE /\ Finish(i, "KEEPER_EXCEPTION")
                    /\ UNCHANGED stored
    /\ new_values' = [new_values EXCEPT ![i] = << >>]
    /\ exist_responses' = [exist_responses EXCEPT ![i] = << >>]
    /\ current_keys_num' = [current_keys_num EXCEPT ![i] = 0]
    /\ UNCHANGED << root, metadata, tables, markers, dropped, lock, table_is_valid, observed, check_res, clientVars, iter, sourceVars,
                    children, reclaims, keys_limit, expect, pre >>

\* the limit check and the multi of the staged requests; the sink is gone
\* when onFinish has returned or thrown
OnFinish_multi(i) ==
    /\ pc[i] = "onFinish_multi"
    /\ IF LimitExceeded(i)
       THEN /\ Finish(i, "LIMIT_EXCEEDED")
            /\ UNCHANGED << data, stored, dataOps >>
       ELSE /\ Counted(i)
            /\ IF MultiApplies(Requests(i), data)
               THEN /\ data' = ApplyAll(Requests(i), data)
                    /\ stored' = IF i \in observed THEN StoredAfter(stored, expect[i].last) ELSE stored
                    /\ Finish(i, "none")
               ELSE /\ Finish(i, "KEEPER_EXCEPTION")
                    /\ UNCHANGED << data, stored >>
    /\ new_values' = [new_values EXCEPT ![i] = << >>]
    /\ exist_responses' = [exist_responses EXCEPT ![i] = << >>]
    /\ current_keys_num' = [current_keys_num EXCEPT ![i] = 0]
    /\ UNCHANGED << root, metadata, tables, markers, dropped, lock, table_is_valid, observed, check_res, clientVars, iter, sourceVars,
                    children, reclaims, keys_limit, expect, pre >>

\* ------------------------------------------------------------ read path
Min(a, b) == IF a < b THEN a ELSE b

\* the row of every column's default
DefaultRow == [ k |-> 0, v |-> 0 ]

\* fillColumns: the row of a serialized key and a value blob
fillColumns(key, blob) == [ k |-> deserializeBinary(key), v |-> deserializeBinary(blob) ]

\* a fetch that fills in the default row for a missing key also when no
\* null_map is asked for
RECURSIVE getBySerializedKeys_defaults(_, _, _)
getBySerializedKeys_defaults(keys, with_null_map, d) ==
    IF keys = << >> THEN [ rows |-> << >>, null_map |-> << >> ]
    ELSE
        LET key == Head(keys)
            rest == getBySerializedKeys_defaults(Tail(keys), with_null_map, d)
        IN  IF key = MetadataName
            THEN [ rows |-> rest.rows, null_map |-> << 1 >> \o rest.null_map ]
            ELSE IF key \in DOMAIN d
            THEN [ rows |-> << fillColumns(base64Decode(key), d[key]) >> \o rest.rows,
                   null_map |-> << 1 >> \o rest.null_map ]
            ELSE [ rows |-> << DefaultRow >> \o rest.rows,
                   null_map |-> << 0 >> \o rest.null_map ]

\* getBySerializedKeys on the data nodes d: the rows of the chunk and the
\* null_map; no request is sent for the metadata path
RECURSIVE getBySerializedKeys(_, _, _)
getBySerializedKeys(keys, with_null_map, d) ==
    IF keys = << >> THEN [ rows |-> << >>, null_map |-> << >> ]
    ELSE
        LET key == Head(keys)
            rest == getBySerializedKeys(Tail(keys), with_null_map, d)
        IN  IF key = MetadataName
            THEN [ rows |-> rest.rows, null_map |-> << 1 >> \o rest.null_map ]
            ELSE IF key \in DOMAIN d
            THEN [ rows |-> << fillColumns(base64Decode(key), d[key]) >> \o rest.rows,
                   null_map |-> << 1 >> \o rest.null_map ]
            ELSE IF with_null_map
            THEN [ rows |-> << DefaultRow >> \o rest.rows,
                   null_map |-> << 0 >> \o rest.null_map ]
            ELSE [ rows |-> rest.rows, null_map |-> << 1 >> \o rest.null_map ]

\* serializeKeysToRawString of a key column
serializeKeysToRawString(keys) == [ j \in 1..Len(keys) |-> serializeBinary(keys[j]) ]

\* the node names a source of Field keys asks for, without the encoding
FieldKeyNames_raw(keys) == serializeKeysToRawString(keys)

\* the node names a source of Field keys asks for
FieldKeyNames(keys) ==
    [ j \in 1..Len(keys) |-> base64Encode(serializeKeysToRawString(keys)[j]) ]

\* sort and unique of Field keys
RECURSIVE SortFields(_)
SortFields(S) ==
    IF S = {} THEN << >>
    ELSE LET m == CHOOSE x \in S : \A y \in S : x <= y
         IN  << m >> \o SortFields(S \ {m})

Range(q) == { q[j] : j \in 1..Len(q) }

\* a slice that starts at the first key whatever the source
SliceBegin_first(num_keys, thread_idx, num_threads) == 0

SliceBegin(num_keys, thread_idx, num_threads) == (num_keys * thread_idx) \div num_threads

\* slices of num_keys / num_threads keys each, the remainder left out
SliceEnd_short(num_keys, thread_idx, num_threads) ==
    SliceBegin(num_keys, thread_idx, num_threads) + num_keys \div num_threads

SliceEnd(num_keys, thread_idx, num_threads) == (num_keys * (thread_idx + 1)) \div num_threads

\* process_keys on sorted keys without duplicates: one source per slice
process_keys(keys, num_streams) ==
    IF keys = << >> THEN << >>
    ELSE
        LET num_keys == Len(keys)
            num_threads == Min(num_streams, Len(keys))
        IN  [ t \in 1..num_threads |->
                [ it |-> SliceBegin(num_keys, t - 1, num_threads),
                  end |-> SliceEnd(num_keys, t - 1, num_threads),
                  done |-> FALSE ] ]

Requested == UNION { [1..n -> Keys] : n \in 0..MaxReq }

Read_begin(i) == Begin(i, "read", CheckCode(i))

\* the rest of read: the keys of the filter or the children of the root
\* path, sorted and without duplicates, cut into slices
Read_keys(i, filtered_keys, scan, block, num_streams) ==
    /\ pc[i] = "read_keys"
    /\ LET keys == IF scan THEN SortNames(RootChildren)
                   ELSE SortFields(Range(filtered_keys))
       IN  /\ container' = [container EXCEPT ![i] = keys]
           /\ pipes' = [pipes EXCEPT ![i] = process_keys(keys, num_streams)]
           /\ IF keys = << >> THEN Finish(i, "none") ELSE Goto(i, "generate")
    /\ all_scan' = [all_scan EXCEPT ![i] = scan]
    /\ max_block_size' = [max_block_size EXCEPT ![i] = block]
    /\ requested_streams' = [requested_streams EXCEPT ![i] = num_streams]
    /\ IF scan THEN Counted(i) ELSE UNCHANGED dataOps
    /\ UNCHANGED << zkVars, table_is_valid, observed, check_res, clientVars, iter, children, reclaims, sinkVars,
                    stored, pre, values, result, null_map >>

\* a source that fetches all that is left of its slice at once
ElemNum_rest(block, left) == left

\* std::min(max_block_size, static_cast<size_t>(end - it)); for Field keys
\* the count of keys serializeKeysToRawString takes
ElemNum(block, left) == Min(block, left)

\* a future that is not ready at the deadline, and one that holds an error
\* other than ZNONODE
Faults == { "timeout", "ZCONNECTIONLOSS" }

\* the exception of a fault
FaultError(f) == IF f = "timeout" THEN "LOGICAL_ERROR" ELSE "KEEPER_EXCEPTION"

\* the ways the futures of n keys can end
Outcomes(n) == [1..n -> { "answer" } \cup Faults]

\* the futures of n keys answered in time with ZOK or ZNONODE
Answers(n) == [ j \in 1..n |-> "answer" ]

Exhausted(ps) == \A t \in DOMAIN ps : ps[t].done

\* the positions of a key list for which a request is sent and whose
\* future is not ready in time or holds an error
Faulty(keys, responses) ==
    { j \in 1..Len(keys) : keys[j] # MetadataName /\ responses[j] \in Faults }

\* a fetch that leaves out the keys whose request failed
Fetch_skipFaulty(keys, with_null_map, d, responses) ==
    LET good == SelectSeq([ j \in 1..Len(keys) |-> [ n |-> keys[j], r |-> responses[j] ] ],
                          LAMBDA x : x.r \notin Faults)
        chunk == getBySerializedKeys([ j \in 1..Len(good) |-> good[j].n ], with_null_map, d)
    IN  [ err |-> "none", rows |-> chunk.rows, null_map |-> chunk.null_map ]

\* getBySerializedKeys with the futures ending as responses tells: the
\* first future that is not ready in time or holds an error other than
\* ZNONODE ends the call with an exception, and no chunk is returned; the
\* null_map of the caller is then filled up to that key
Fetch(keys, with_null_map, d, responses) ==
    IF Faulty(keys, responses) = {}
    THEN LET chunk == getBySerializedKeys(keys, with_null_map, d)
         IN  [ err |-> "none", rows |-> chunk.rows, null_map |-> chunk.null_map ]
    ELSE LET f == CHOOSE j \in Faulty(keys, responses) :
                      \A l \in Faulty(keys, responses) : j <= l
             before == getBySerializedKeys(SubSeq(keys, 1, f - 1), with_null_map, d)
         IN  [ err |-> FaultError(responses[f]),
               rows |-> << >>,
               null_map |-> before.null_map \o [ j \in 1..(Len(keys) - f + 1) |-> 1 ] ]

\* the futures of a call as the caller finds them; none for ch_metadata
Futures(keys, responses) ==
    [ j \in 1..Len(keys) |-> IF keys[j] = MetadataName THEN "invalid" ELSE responses[j] ]

\* the keys source t of instance i fetches next
BatchLen(i, t) ==
    IF pipes[i][t].it >= pipes[i][t].end THEN 0
    ELSE ElemNum(max_block_size[i], pipes[i][t].end - pipes[i][t].it)

\* one call of generate of source t, the futures of its fetch ending as
\* responses tells; the read is over when every source has returned its
\* empty chunk, or when a fetch has thrown
Generate_with(i, t, responses) ==
    /\ pc[i] = "generate"
    /\ t \in DOMAIN pipes[i]
    /\ ~pipes[i][t].done
    /\ LET p == pipes[i][t]
           elem_num == BatchLen(i, t)
           batch == SubSeq(container[i], p.it + 1, p.it + elem_num)
           names == IF all_scan[i] THEN batch ELSE FieldKeyNames(batch)
           chunk == Fetch(names, FALSE, data, responses)
           after == IF p.it >= p.end
                    THEN [pipes[i] EXCEPT ![t] = [ it |-> 0, end |-> p.end, done |-> TRUE ]]
                    ELSE [pipes[i] EXCEPT ![t].it = p.it + elem_num]
       IN  IF p.it >= p.end
           THEN /\ pipes' = [pipes EXCEPT ![i] = after]
                /\ UNCHANGED << result, dataOps, values >>
                /\ IF Exhausted(after) THEN Finish(i, "none") ELSE Goto(i, "generate")
           ELSE /\ values' = [values EXCEPT ![i] = Futures(names, responses)]
                /\ Counted(i)
                /\ IF chunk.err = "none"
                   THEN /\ pipes' = [pipes EXCEPT ![i] = after]
                        /\ result' = [result EXCEPT ![i] = @ \o chunk.rows]
                        /\ Goto(i, "generate")
                   ELSE /\ Finish(i, chunk.err)
                        /\ UNCHANGED << pipes, result >>
    /\ UNCHANGED << zkVars, table_is_valid, observed, check_res, clientVars, iter, children, reclaims, sinkVars,
                    stored, pre, all_scan, container, max_block_size, requested_streams, null_map >>

\* one call of generate of source t whose fetch is answered
Generate(i, t) ==
    /\ t \in DOMAIN pipes[i]
    /\ Generate_with(i, t, Answers(BatchLen(i, t)))

\* getByKeys of a key column, the futures of its fetch ending as responses
\* tells: no validity check, one fetch of all the keys
GetByKeys_with(i, keys, responses) ==
    /\ pc[i] = "idle"
    /\ LET chunk == Fetch(serializeKeysToRawString(keys), TRUE, data, responses)
       IN  /\ result' = [result EXCEPT ![i] = chunk.rows]
           /\ null_map' = [null_map EXCEPT ![i] = chunk.null_map]
           /\ last' = [last EXCEPT ![i] = [ op |-> "getByKeys", err |-> chunk.err ]]
    /\ container' = [container EXCEPT ![i] = keys]
    /\ all_scan' = [all_scan EXCEPT ![i] = FALSE]
    /\ pipes' = [pipes EXCEPT ![i] = << >>]
    /\ max_block_size' = [max_block_size EXCEPT ![i] = 1]
    /\ requested_streams' = [requested_streams EXCEPT ![i] = 1]
    /\ values' = [values EXCEPT ![i] = Futures(serializeKeysToRawString(keys), responses)]
    /\ pre' = IF i \in observed THEN [pre EXCEPT ![i] = data] ELSE pre
    /\ dataOps' = [dataOps EXCEPT ![i] = 0]
    /\ NoSink(i)
    /\ UNCHANGED << zkVars, pc, table_is_valid, observed, check_res, clientVars, iter, children, reclaims, stored >>

\* getByKeys of a key column whose fetch is answered
GetByKeys(i, keys) == GetByKeys_with(i, keys, Answers(Len(keys)))

\* --------------------------------------- specification: one table, alone
\* a table created on an empty root path, used by one query at a time
InitSolo ==
    /\ root = TRUE
    /\ data = << >>
    /\ metadata = TRUE
    /\ tables = TRUE
    /\ markers = {1}
    /\ dropped = FALSE
    /\ lock = NoLock
    /\ pc = [i \in Inst |-> IF i = 1 THEN "idle" ELSE "absent"]
    /\ table_is_valid = [i \in Inst |-> IF i = 1 THEN "true" ELSE Unset]
    /\ last = [i \in Inst |-> NoOp]
    /\ iter = [i \in Inst |-> 0]
    /\ children = [i \in Inst |-> {}]
    /\ reclaims = [i \in Inst |-> 0]
    /\ keys_limit \in { [i \in Inst |-> IF i = 1 THEN l ELSE 0] : l \in 0..MaxLimit }
    /\ new_values = [i \in Inst |-> << >>]
    /\ current_keys_num = [i \in Inst |-> 0]
    /\ exist_responses = [i \in Inst |-> << >>]
    /\ expect = [i \in Inst |-> NoRows]
    /\ stored = << >>
    /\ pre = [i \in Inst |-> << >>]
    /\ dataOps = [i \in Inst |-> 0]
    /\ observed = {1}
    /\ check_res = [i \in Inst |-> "none"]
    /\ NoClient
    /\ InitSource

NextWrite ==
    \E i \in Inst :
        \/ Write_begin(i)
        \/ \E chunk \in Chunks : Consume(i, chunk)
        \/ OnFinish_get(i)
        \/ OnFinish_exists(i)
        \/ OnFinish_multi(i)
        \/ Truncate_begin(i)
        \/ Truncate_list(i)
        \/ Truncate_remove(i)

SpecWrite == InitSolo /\ [][NextWrite]_vars

\* ------------------------------------- specification: writes and reads
\* one table without a keys limit, written, truncated and read by one query
\* at a time
InitRead ==
    /\ InitSolo
    /\ keys_limit = [i \in Inst |-> 0]

NextRead ==
    \E i \in Inst :
        \/ Write_begin(i)
        \/ \E chunk \in Chunks : Consume(i, chunk)
        \/ OnFinish_get(i)
        \/ OnFinish_exists(i)
        \/ OnFinish_multi(i)
        \/ Truncate_begin(i)
        \/ Truncate_list(i)
        \/ Truncate_remove(i)
        \/ Read_begin(i)
        \/ \E filtered_keys \in Requested, scan \in BOOLEAN,
              block \in 1..MaxBlock, num_streams \in 1..MaxStreams :
                Read_keys(i, filtered_keys, scan, block, num_streams)
        \/ \E t \in 1..MaxStreams : Generate(i, t)
        \/ \E keys \in Requested \ { << >> } : GetByKeys(i, keys)

SpecRead == InitRead /\ [][NextRead]_vars

\* ------------------------------- specification: two tables on one root
\* two tables created on the same empty root path, each running one
\* operation at a time; a dropped table runs nothing more
InitRace ==
    /\ root = TRUE
    /\ data = << >>
    /\ metadata = TRUE
    /\ tables = TRUE
    /\ markers = {1, 2}
    /\ dropped = FALSE
    /\ lock = NoLock
    /\ pc = [i \in Inst |-> IF i \in {1, 2} THEN "idle" ELSE "absent"]
    /\ table_is_valid = [i \in Inst |-> IF i \in {1, 2} THEN "true" ELSE Unset]
    /\ last = [i \in Inst |-> NoOp]
    /\ iter = [i \in Inst |-> 0]
    /\ children = [i \in Inst |-> {}]
    /\ reclaims = [i \in Inst |-> 0]
    /\ keys_limit = [i \in Inst |-> 0]
    /\ new_values = [i \in Inst |-> << >>]
    /\ current_keys_num = [i \in Inst |-> 0]
    /\ exist_responses = [i \in Inst |-> << >>]
    /\ expect = [i \in Inst |-> NoRows]
    /\ stored = << >>
    /\ pre = [i \in Inst |-> << >>]
    /\ dataOps = [i \in Inst |-> 0]
    /\ observed = {}
    /\ check_res = [i \in Inst |-> "none"]
    /\ NoClient
    /\ InitSource

\* the batches of racing writer i: one chunk of rows with distinct keys, all
\* carrying a value that tells the writers apart
RaceChunks(i) ==
    { chunk \in Chunks :
        /\ \A j \in 1..Len(chunk) : chunk[j].v = i % 2
        /\ \A j \in 1..(Len(chunk) - 1) : chunk[j].k < chunk[j + 1].k }

NextRace ==
    \E i \in Inst :
        \/ last[i].op # "drop" /\ Write_begin(i)
        \/ DOMAIN new_values[i] = {} /\ \E chunk \in RaceChunks(i) : Consume(i, chunk)
        \/ OnFinish_get(i)
        \/ OnFinish_exists(i)
        \/ OnFinish_multi(i)
        \/ last[i].op # "drop" /\ Truncate_begin(i)
        \/ Truncate_list(i)
        \/ Truncate_remove(i)
        \/ last[i].op # "drop" /\ Drop_begin(i)
        \/ Drop_remove(i)
        \/ Drop_getChildren(i)
        \/ Drop_multi(i)
        \/ DropTable_list(i)
        \/ DropTable_remove(i)
        \/ DropTable_multi(i)

SpecRace == InitRace /\ [][NextRace]_vars

\* ----------------------------- specification: operations after a drop
\* the two tables of the root path, each running one operation at a time,
\* a drop being followed by more operations on the same table
NextTerminal ==
    \E i \in Inst :
        \/ Write_begin(i)
        \/ DOMAIN new_values[i] = {} /\ \E chunk \in RaceChunks(i) : Consume(i, chunk)
        \/ OnFinish_get(i)
        \/ OnFinish_exists(i)
        \/ OnFinish_multi(i)
        \/ Truncate_begin(i)
        \/ Truncate_list(i)
        \/ Truncate_remove(i)
        \/ Read_begin(i)
        \/ Read_keys(i, << >>, TRUE, MaxBlock, 1)
        \/ Generate(i, 1)
        \/ Drop_begin(i)
        \/ Drop_remove(i)
        \/ Drop_getChildren(i)
        \/ Drop_multi(i)
        \/ DropTable_list(i)
        \/ DropTable_remove(i)
        \/ DropTable_multi(i)

SpecTerminal == InitRace /\ [][NextTerminal]_vars

\* --------------------------------------- specification: attached table
\* a table attached to a root path where its marker is or is not, the
\* connection failing at any validity check, and used by one query at a
\* time
InitAttach ==
    /\ root = TRUE
    /\ data \in DataStates
    /\ metadata = TRUE
    /\ tables = TRUE
    /\ markers \in SUBSET {1, 2}
    /\ dropped = FALSE
    /\ lock = NoLock
    /\ pc = [i \in Inst |-> IF i = 1 THEN "unconstructed" ELSE "absent"]
    /\ table_is_valid = [i \in Inst |-> Unset]
    /\ last = [i \in Inst |-> NoOp]
    /\ iter = [i \in Inst |-> 0]
    /\ children = [i \in Inst |-> {}]
    /\ reclaims = [i \in Inst |-> 0]
    /\ keys_limit = [i \in Inst |-> 0]
    /\ new_values = [i \in Inst |-> << >>]
    /\ current_keys_num = [i \in Inst |-> 0]
    /\ exist_responses = [i \in Inst |-> << >>]
    /\ expect = [i \in Inst |-> NoRows]
    /\ stored = StoredOf(data)
    /\ pre = [i \in Inst |-> << >>]
    /\ dataOps = [i \in Inst |-> 0]
    /\ observed = {1}
    /\ check_res = [i \in Inst |-> "none"]
    /\ NoClient
    /\ InitSource

Operations == { "read", "write", "truncate", "drop" }

\* a point read of at most one key
OneKey == { q \in Requested : Len(q) <= 1 }

NextAttach ==
    \E i \in Inst :
        \/ \E code \in CheckCodes(i) : Attach(i, code)
        \/ \E op \in Operations, code \in CheckCodes(i) : Begin(i, op, code)
        \/ DOMAIN new_values[i] = {} /\ \E chunk \in RaceChunks(i) : Consume(i, chunk)
        \/ OnFinish_get(i)
        \/ OnFinish_exists(i)
        \/ OnFinish_multi(i)
        \/ Truncate_list(i)
        \/ Truncate_remove(i)
        \/ \E filtered_keys \in OneKey, scan \in BOOLEAN,
              block \in 1..MaxBlock, num_streams \in 1..MaxStreams :
                Read_keys(i, filtered_keys, scan, block, num_streams)
        \/ \E t \in 1..MaxStreams : Generate(i, t)
        \/ Drop_remove(i) \/ Drop_getChildren(i) \/ Drop_multi(i)
        \/ DropTable_list(i) \/ DropTable_remove(i) \/ DropTable_multi(i)

SpecAttach == InitAttach /\ [][NextAttach]_vars

\* ------------------------------------ specification: one construction
\* what a constructor can find under its root path
NoRoot ==
    /\ root = FALSE /\ data = << >> /\ metadata = FALSE /\ tables = FALSE
    /\ markers = {} /\ dropped = FALSE /\ lock = NoLock

EmptyRoot ==
    /\ root = TRUE /\ data = << >> /\ metadata = FALSE /\ tables = FALSE
    /\ markers = {} /\ dropped = FALSE /\ lock = NoLock

\* a drop has committed its first transaction and its session is gone
InterruptedDrop ==
    /\ root = TRUE /\ data \in DataStates /\ metadata = TRUE /\ tables = FALSE
    /\ markers = {} /\ dropped = TRUE /\ lock = NoLock

\* another table was created while a reclaim ran, which gave up on ZNOTEMPTY
RemnantsInUse ==
    /\ root = TRUE /\ data = << >> /\ metadata = TRUE /\ tables = TRUE
    /\ markers = {2} /\ dropped = TRUE /\ lock = NoLock

\* another table uses the root path
RootInUse ==
    /\ root = TRUE /\ data \in DataStates /\ metadata = TRUE /\ tables = TRUE
    /\ markers = {2} /\ dropped = FALSE /\ lock = NoLock

InitConstruct ==
    /\ NoRoot \/ EmptyRoot \/ InterruptedDrop \/ RemnantsInUse \/ RootInUse
    /\ pc = [i \in Inst |-> IF i = 1 THEN "unconstructed" ELSE "absent"]
    /\ table_is_valid = [i \in Inst |-> Unset]
    /\ last = [i \in Inst |-> NoOp]
    /\ iter = [i \in Inst |-> 0]
    /\ children = [i \in Inst |-> {}]
    /\ reclaims = [i \in Inst |-> 0]
    /\ keys_limit = [i \in Inst |-> 0]
    /\ new_values = [i \in Inst |-> << >>]
    /\ current_keys_num = [i \in Inst |-> 0]
    /\ exist_responses = [i \in Inst |-> << >>]
    /\ expect = [i \in Inst |-> NoRows]
    /\ stored = StoredOf(data)
    /\ pre = [i \in Inst |-> << >>]
    /\ dataOps = [i \in Inst |-> 0]
    /\ observed = {1}
    /\ check_res = [i \in Inst |-> "none"]
    /\ NoClient
    /\ InitSource

NextConstruct ==
    \E i \in Inst :
        \/ \E path_prefix \in PathPrefixes, has_uuid \in BOOLEAN, root_path_ \in RootPaths,
              create_missing_root_path \in BOOLEAN,
              keys_limit_ \in 0..MaxLimit, config_keys_limit \in 0..MaxLimit :
                Construct(i, path_prefix, has_uuid, root_path_, create_missing_root_path,
                          keys_limit_, config_keys_limit)
        \/ Loop_exists(i)
        \/ Loop_tryCreateLock(i)
        \/ Loop_createMetadata(i)
        \/ Loop_createTables(i)
        \/ Loop_createMarker(i)
        \/ DropTable_list(i)
        \/ DropTable_remove(i)
        \/ DropTable_multi(i)

\* the constructor runs in one thread that is not held up for ever
SpecConstruct == InitConstruct /\ [][NextConstruct]_vars /\ WF_vars(NextConstruct)

\* ----------------- specification: one construction after a failed drop
\* a table is constructed, alone, on what a drop left that removed its
\* tables directory and was interrupted before dropTable
InitReclaim == InterruptedDrop /\ InitConstruct

SpecReclaim == InitReclaim /\ [][NextConstruct]_vars /\ WF_vars(NextConstruct)

\* --------------------------------- specification: the client of a table
\* threads of one table call getClient while sessions expire; the nodes
\* under the root path are left alone
NextClient ==
    \/ \E t \in Threads :
          \/ GetClient_lock(t)
          \/ GetClient_check(t)
          \/ GetClient_connect(t)
          \/ GetClient_sync(t)
          \/ GetClient_return(t)
    \/ \E h \in 1..MaxHandle : Expire(h)

SpecClient == InitSolo /\ [][NextClient]_vars

\* ------------------- specification: writes to a table that has a limit
\* one table with a keys limit on a root path that holds any data nodes,
\* also more than the limit (written through a table on the same root path
\* whose limit is higher); each sink consumes at most one chunk
InitLimit ==
    /\ root = TRUE
    /\ data \in DataStates
    /\ metadata = TRUE
    /\ tables = TRUE
    /\ markers = {1}
    /\ dropped = FALSE
    /\ lock = NoLock
    /\ pc = [i \in Inst |-> IF i = 1 THEN "idle" ELSE "absent"]
    /\ table_is_valid = [i \in Inst |-> IF i = 1 THEN "true" ELSE Unset]
    /\ last = [i \in Inst |-> NoOp]
    /\ iter = [i \in Inst |-> 0]
    /\ children = [i \in Inst |-> {}]
    /\ reclaims = [i \in Inst |-> 0]
    /\ keys_limit \in { [i \in Inst |-> IF i = 1 THEN l ELSE 0] : l \in 1..MaxLimit }
    /\ new_values = [i \in Inst |-> << >>]
    /\ current_keys_num = [i \in Inst |-> 0]
    /\ exist_responses = [i \in Inst |-> << >>]
    /\ expect = [i \in Inst |-> NoRows]
    /\ stored = StoredOf(data)
    /\ pre = [i \in Inst |-> << >>]
    /\ dataOps = [i \in Inst |-> 0]
    /\ observed = {1}
    /\ check_res = [i \in Inst |-> "none"]
    /\ NoClient
    /\ InitSource

NextLimit ==
    \E i \in Inst :
        \/ Write_begin(i)
        \/ DOMAIN new_values[i] = {} /\ \E chunk \in Chunks : Consume(i, chunk)
        \/ OnFinish_get(i)
        \/ OnFinish_exists(i)
        \/ OnFinish_multi(i)

SpecLimit == InitLimit /\ [][NextLimit]_vars

\* ------------------------------- specification: reads of stored rows
\* one valid table on a root path that holds any data nodes is read, by
\* keys and by full scans, one query at a time, the requests of a fetch
\* failing or not; getByKeys, which looks at nothing an earlier query left,
\* is called before the first query
InitFetch ==
    /\ root = TRUE
    /\ data \in DataStates
    /\ metadata = TRUE
    /\ tables = TRUE
    /\ markers = {1}
    /\ dropped = FALSE
    /\ lock = NoLock
    /\ pc = [i \in Inst |-> IF i = 1 THEN "idle" ELSE "absent"]
    /\ table_is_valid = [i \in Inst |-> IF i = 1 THEN "true" ELSE Unset]
    /\ last = [i \in Inst |-> NoOp]
    /\ iter = [i \in Inst |-> 0]
    /\ children = [i \in Inst |-> {}]
    /\ reclaims = [i \in Inst |-> 0]
    /\ keys_limit = [i \in Inst |-> 0]
    /\ new_values = [i \in Inst |-> << >>]
    /\ current_keys_num = [i \in Inst |-> 0]
    /\ exist_responses = [i \in Inst |-> << >>]
    /\ expect = [i \in Inst |-> NoRows]
    /\ stored = StoredOf(data)
    /\ pre = [i \in Inst |-> << >>]
    /\ dataOps = [i \in Inst |-> 0]
    /\ observed = {1}
    /\ check_res = [i \in Inst |-> "none"]
    /\ NoClient
    /\ InitSource

\* key columns of getByKeys: keys in ascending order, none twice
Ascending ==
    { q \in Requested \ { << >> } : \A j \in 1..(Len(q) - 1) : q[j] < q[j + 1] }

NextFetch ==
    \E i \in Inst :
        \/ Read_begin(i)
        \/ \E filtered_keys \in Requested, scan \in BOOLEAN,
              block \in 1..MaxBlock, num_streams \in 1..MaxStreams :
                Read_keys(i, filtered_keys, scan, block, num_streams)
        \/ \E t \in DOMAIN pipes[i] :
              \E responses \in Outcomes(BatchLen(i, t)) : Generate_with(i, t, responses)
        \/ /\ last[i].op = "none"
           /\ \E keys \in Ascending :
                 \E responses \in Outcomes(Len(keys)) : GetByKeys_with(i, keys, responses)

SpecFetch == InitFetch /\ [][NextFetch]_vars

\* ------------------------- specification: constructions, drops, writes
\* two tables are created on one root path that exists and is empty, are
\* written to and truncated, and are dropped, in any interleaving; a
\* constructor is followed for MaxIter iterations of its loop
InitShared ==
    /\ EmptyRoot
    /\ pc = [i \in Inst |-> IF i \in {1, 2} THEN "unconstructed" ELSE "absent"]
    /\ table_is_valid = [i \in Inst |-> Unset]
    /\ last = [i \in Inst |-> NoOp]
    /\ iter = [i \in Inst |-> 0]
    /\ children = [i \in Inst |-> {}]
    /\ reclaims = [i \in Inst |-> 0]
    /\ keys_limit = [i \in Inst |-> 0]
    /\ new_values = [i \in Inst |-> << >>]
    /\ current_keys_num = [i \in Inst |-> 0]
    /\ exist_responses = [i \in Inst |-> << >>]
    /\ expect = [i \in Inst |-> NoRows]
    /\ stored = << >>
    /\ pre = [i \in Inst |-> << >>]
    /\ dataOps = [i \in Inst |-> 0]
    /\ observed = {}
    /\ check_res = [i \in Inst |-> "none"]
    /\ NoClient
    /\ InitSource

NextShared ==
    \E i \in Inst :
        \/ Construct(i, << "/", "p" >>, TRUE, << "/", "r" >>, TRUE, 0, 0)
        \/ iter[i] < MaxIter /\ Loop_exists(i)
        \/ Loop_tryCreateLock(i)
        \/ Loop_createMetadata(i)
        \/ Loop_createTables(i)
        \/ Loop_createMarker(i)
        \/ last[i].op # "drop" /\ Write_begin(i)
        \/ DOMAIN new_values[i] = {} /\ \E chunk \in RaceChunks(i) : Consume(i, chunk)
        \/ OnFinish_get(i)
        \/ OnFinish_exists(i)
        \/ OnFinish_multi(i)
        \/ last[i].op # "drop" /\ Truncate_begin(i)
        \/ Truncate_list(i)
        \/ Truncate_remove(i)
        \/ last[i].op # "drop" /\ Drop_begin(i)
        \/ Drop_remove(i) \/ Drop_getChildren(i) \/ Drop_multi(i)
        \/ DropTable_list(i) \/ DropTable_remove(i) \/ DropTable_multi(i)

SpecShared == InitShared /\ [][NextShared]_vars

\* --------------- specification: constructions after constructions, drops
\* table i is being constructed
Constructing(i) == last[i].op = "create" /\ pc[i] \notin { "idle", "failed" }

\* the object of a table that was dropped, or whose construction failed,
\* is gone, and a new table, whose marker has never existed, is about to
\* be constructed in its place
NewTable(i) ==
    /\ \/ pc[i] = "failed"
       \/ pc[i] = "idle" /\ last[i].op = "drop" /\ i \notin markers
    /\ pc' = [pc EXCEPT ![i] = "unconstructed"]
    /\ table_is_valid' = [table_is_valid EXCEPT ![i] = Unset]
    /\ last' = [last EXCEPT ![i] = NoOp]
    /\ iter' = [iter EXCEPT ![i] = 0]
    /\ reclaims' = [reclaims EXCEPT ![i] = 0]
    /\ UNCHANGED << zkVars, observed, check_res, clientVars, sourceVars, children,
                    sinkVars, stored, pre, dataOps >>

\* no construction is running, and none took more than MaxIter iterations
Settled == \A j \in Inst : ~Constructing(j) /\ iter[j] <= MaxIter

\* what table i does: it is constructed, dropped, and replaced by a new
\* table; a construction goes through the whole of its loop, and nothing
\* starts while a construction is running, so that a construction that
\* starts when every operation has returned runs alone; a construction of
\* more than MaxIter iterations is followed to its end and no further
StepAgain(i) ==
    \/ /\ Settled
       /\ Construct(i, << "/", "p" >>, TRUE, << "/", "r" >>, TRUE, 0, 0)
    \/ Loop_exists(i)
    \/ Loop_tryCreateLock(i)
    \/ Loop_createMetadata(i)
    \/ Loop_createTables(i)
    \/ Loop_createMarker(i)
    \/ /\ Settled
       /\ last[i].op # "drop"
       /\ Drop_begin(i)
    \/ Drop_remove(i) \/ Drop_getChildren(i) \/ Drop_multi(i)
    \/ DropTable_list(i) \/ DropTable_remove(i) \/ DropTable_multi(i)
    \/ /\ Settled
       /\ NewTable(i)

NextAgain == \E i \in Inst : StepAgain(i)

\* every table's thread is scheduled again and again
SpecAgain == InitShared /\ [][NextAgain]_vars /\ \A i \in Inst : WF_vars(StepAgain(i))

\* ------------------------------------------- specification: racing drops
\* every instance was created on the shared root path and is dropped once
InitDrop ==
    /\ root = TRUE
    /\ data \in DataStates
    /\ metadata = TRUE
    /\ tables = TRUE
    /\ markers = Inst
    /\ dropped = FALSE
    /\ lock = NoLock
    /\ pc = [i \in Inst |-> "idle"]
    /\ table_is_valid = [i \in Inst |-> "true"]
    /\ last = [i \in Inst |-> NoOp]
    /\ iter = [i \in Inst |-> 0]
    /\ children = [i \in Inst |-> {}]
    /\ reclaims = [i \in Inst |-> 0]
    /\ keys_limit = [i \in Inst |-> 0]
    /\ new_values = [i \in Inst |-> << >>]
    /\ current_keys_num = [i \in Inst |-> 0]
    /\ exist_responses = [i \in Inst |-> << >>]
    /\ expect = [i \in Inst |-> NoRows]
    /\ stored = StoredOf(data)
    /\ pre = [i \in Inst |-> << >>]
    /\ dataOps = [i \in Inst |-> 0]
    /\ observed = Inst
    /\ check_res = [i \in Inst |-> "none"]
    /\ NoClient
    /\ InitSource

NextDrop ==
    \E i \in Inst :
        \/ last[i].op = "none" /\ Drop_begin(i)
        \/ Drop_remove(i)
        \/ Drop_getChildren(i)
        \/ Drop_multi(i)
        \/ DropTable_list(i)
        \/ DropTable_remove(i)
        \/ DropTable_multi(i)

SpecDrop == InitDrop /\ [][NextDrop]_vars

\* ------------------------------------------------- claims: racing drops
Returned(i, op) == pc[i] = "idle" /\ last[i].op = op /\ last[i].err # "running"

AllDropped == \A i \in Inst : Returned(i, "drop")

NothingLeft ==
    /\ DOMAIN data = {}
    /\ ~metadata /\ ~tables /\ ~dropped
    /\ lock = NoLock
    /\ markers = {}

\* C1: when all instances sharing the root path are dropped concurrently,
\* exactly one of them runs dropTable, and once every drop has returned the
\* root path holds no data node, no ch_metadata, no tables directory, no
\* dropped marker and no dropped lock.
C1_OneReclaimsAllRemoved ==
    AllDropped =>
        /\ Cardinality({ i \in Inst : reclaims[i] > 0 }) = 1
        /\ \A i \in Inst : reclaims[i] <= 1
        /\ NothingLeft

C1_Witness ==
    /\ AllDropped
    /\ \E i \in Inst : reclaims[i] = 1 /\ DOMAIN pre[i] # {}

\* C2: no drop of two valid instances sharing a root path that are dropped
\* concurrently ends with an error: a drop that loses the race returns
\* normally.
C2_NoDropFails ==
    \A i \in Inst : last[i].op = "drop" => last[i].err \in { "running", "none" }

\* C10: a step of a drop taken while another instance's marker is in the
\* tables directory leaves the tables directory, the other markers, the
\* absence of the dropped marker and lock and every data node as they are,
\* and the drop returns when its listing shows the other marker.
C10_DropLeavesOthersAlone ==
    [][ \A i \in Inst :
          ( /\ pc[i] \in { "drop_remove", "drop_getChildren", "drop_multi" }
            /\ pc'[i] # pc[i]
            /\ markers \ {i} # {} )
          => /\ data' = data
             /\ metadata' = metadata /\ tables' = tables
             /\ dropped' = dropped /\ lock' = lock
             /\ markers \ {i} \subseteq markers'
             /\ i \notin markers'
             /\ pc[i] = "drop_getChildren"
                  => pc'[i] = "idle" /\ last'[i].err = "none" ]_vars

C10_Witness ==
    \E i \in Inst :
        /\ Returned(i, "drop") /\ last[i].err = "none"
        /\ markers \ {i} # {}
        /\ DOMAIN data # {}
        /\ reclaims[i] = 0

\* --------------------------------------------------- claims: write path
\* the data nodes are exactly the rows e, each under the node of its key
HoldsExactly(d, e) ==
    /\ Cardinality(DOMAIN d) = Cardinality(DOMAIN e)
    /\ \A k \in DOMAIN e :
          /\ EncodedKey(k) \in DOMAIN d
          /\ d[EncodedKey(k)] = serializeBinary(e[k])

\* C3: with a keys limit N > 0 on an empty table and no concurrent writer, a
\* batch of N distinct new keys is committed, and a batch of N + 1 distinct
\* new keys is rejected with LIMIT_EXCEEDED and leaves the data nodes and
\* their values as they were before the batch.
C3_LimitOnEmptyTable ==
    \A i \in Inst :
        ( /\ Returned(i, "write")
          /\ keys_limit[i] > 0
          /\ DOMAIN pre[i] = {} )
        => /\ Cardinality(DOMAIN expect[i].last) = keys_limit[i]
                => last[i].err = "none" /\ HoldsExactly(data, expect[i].last)
           /\ Cardinality(DOMAIN expect[i].last) = keys_limit[i] + 1
                => last[i].err = "LIMIT_EXCEEDED" /\ data = pre[i]

C3_Witness ==
    \E i \in Inst :
        /\ Returned(i, "write")
        /\ keys_limit[i] > 0
        /\ DOMAIN pre[i] = {}
        /\ Cardinality(DOMAIN expect[i].last) = keys_limit[i] + 1
        /\ last[i].err = "LIMIT_EXCEEDED"

\* C5: for every key of a batch, also one that came in several rows of one
\* or several chunks, exactly one create-or-set request is staged, carrying
\* the value of the last such row, and after the commit the data node of
\* the key holds that value.
C5_LastWriteWins ==
    \A i \in Inst :
        /\ pc[i] = "onFinish_multi"
             => /\ Len(Requests(i)) = Cardinality(DOMAIN expect[i].last)
                /\ \A k \in DOMAIN expect[i].last :
                     \E j \in 1..Len(Requests(i)) :
                        /\ Requests(i)[j].path = EncodedKey(k)
                        /\ Requests(i)[j].value = serializeBinary(expect[i].last[k])
                        /\ Requests(i)[j].type \in { "create", "set" }
                        /\ \A l \in 1..Len(Requests(i)) :
                              Requests(i)[l].path = EncodedKey(k) => l = j
        /\ (Returned(i, "write") /\ last[i].err = "none")
             => \A k \in DOMAIN expect[i].last :
                   /\ EncodedKey(k) \in DOMAIN data
                   /\ data[EncodedKey(k)] = serializeBinary(expect[i].last[k])

C5_Witness ==
    \E i \in Inst :
        /\ Returned(i, "write") /\ last[i].err = "none"
        /\ expect[i].dup
        /\ \E k \in DOMAIN expect[i].last :
              /\ EncodedKey(k) \in DOMAIN pre[i]
              /\ pre[i][EncodedKey(k)] # data[EncodedKey(k)]

\* ----------------------------------------- claims: racing finalization
\* C4: under concurrent writers, truncate and drop, the commit step of a
\* write finalization either succeeds and leaves every buffered key of the
\* batch holding the batch's value, touching no other data node, or fails
\* and leaves every data node as it was; the steps of the finalization
\* before the commit change no data node.
C4_AllOrNothing ==
    [][ \A i \in Inst :
          /\ ( pc[i] \in { "consume", "onFinish_exists" } /\ pc'[i] # pc[i] )
                => data' = data
          /\ ( pc[i] = "onFinish_multi" /\ pc'[i] = "idle" )
                => \/ /\ last'[i].err = "none"
                      /\ \A n \in DOMAIN new_values[i] :
                            n \in DOMAIN data' /\ data'[n] = new_values[i][n]
                      /\ \A n \in (DOMAIN data \cup DOMAIN data') \ DOMAIN new_values[i] :
                            /\ n \in DOMAIN data /\ n \in DOMAIN data'
                            /\ data'[n] = data[n]
                   \/ /\ last'[i].err \in { "KEEPER_EXCEPTION", "LIMIT_EXCEEDED" }
                      /\ data' = data ]_vars

\* a finalization has failed at its commit on a table that another
\* instance has written to since
C4_Witness ==
    \E i \in Inst :
        /\ Returned(i, "write") /\ last[i].err = "KEEPER_EXCEPTION"
        /\ \E j \in Inst \ {i} : Returned(j, "write") /\ last[j].err = "none"
        /\ DOMAIN data # {}

\* --------------------------------------------------- claims: read path
\* the positions of result q that hold a row of key k
RowsOf(q, k) == { j \in 1..Len(q) : q[j].k = k }

\* C6: a read by key that requests exactly one key k, run after a write
\* batch with a row of k has committed and before a later write to k, a
\* truncate or a drop, returns exactly one row, the row last committed for
\* k: the source asks for the data node the sink wrote.
C6_ReadBackByKey ==
    \A i \in Inst :
        ( /\ Returned(i, "read") /\ last[i].err = "none"
          /\ ~all_scan[i]
          /\ Len(container[i]) = 1 )
        => LET k == container[i][1] IN
               /\ k \in DOMAIN stored
                    => result[i] = << [ k |-> k, v |-> stored[k] ] >>
               /\ FieldKeyNames(container[i])[1] = EncodedKey(k)

C6_Witness ==
    \E i \in Inst :
        /\ Returned(i, "read") /\ last[i].err = "none"
        /\ ~all_scan[i]
        /\ Len(container[i]) = 1
        /\ container[i][1] \in DOMAIN stored
        /\ stored[container[i][1]] # DefaultRow.v
        /\ Len(result[i]) = 1
        /\ Cardinality(DOMAIN stored) > 1

\* C7: getByKeys returns one row per requested key in request order; at
\* the position of a key that is stored the row is the stored row and the
\* null_map entry says the row is a real one (1), at the position of a key
\* that is not stored the row is the defaults and the null_map entry says
\* it is a filled-in one (0).
C7_GetByKeysFindsStored ==
    \A i \in Inst :
        last[i].op = "getByKeys"
        => /\ Len(result[i]) = Len(container[i])
           /\ Len(null_map[i]) = Len(container[i])
           /\ \A j \in 1..Len(container[i]) :
                 LET k == container[i][j] IN
                     IF k \in DOMAIN stored
                     THEN /\ result[i][j] = [ k |-> k, v |-> stored[k] ]
                          /\ null_map[i][j] = 1
                     ELSE /\ result[i][j] = DefaultRow
                          /\ null_map[i][j] = 0

\* C8: a full scan of a table that nobody writes to, with any number of
\* streams and any block size of at least 1, has produced when all its
\* sources are exhausted exactly one row for every stored key, the row
\* stored for it, and no other row, none for ch_metadata either.
C8_FullScanEveryKeyOnce ==
    \A i \in Inst :
        ( Returned(i, "read") /\ last[i].err = "none" /\ all_scan[i] )
        => /\ Len(result[i]) = Cardinality(DOMAIN stored)
           /\ \A k \in DOMAIN stored :
                 /\ Cardinality(RowsOf(result[i], k)) = 1
                 /\ \A j \in RowsOf(result[i], k) : result[i][j].v = stored[k]
           /\ \A j \in 1..Len(result[i]) : result[i][j].k \in DOMAIN stored

C8_Witness ==
    \E i \in Inst :
        /\ Returned(i, "read") /\ last[i].err = "none" /\ all_scan[i]
        /\ Len(pipes[i]) > 1
        /\ max_block_size[i] = 1
        /\ Cardinality(DOMAIN stored) > 1
        /\ MetadataName \in Range(container[i])
        /\ Len(result[i]) = Cardinality(DOMAIN stored)

\* ------------------------------------------------ claims: attached table
\* C9: the constructor in attach mode of a table whose marker does not
\* exist returns without an error and leaves the table not valid; from then
\* on the table never becomes valid, and every read, write, truncate and
\* drop on it ends at once with INVALID_STATE, having sent no request on
\* the root path or a data node, changed no node and produced no result.
C9_AttachedInvalidFailsFast ==
    [][ \A i \in Inst :
          /\ ( pc[i] = "unconstructed" /\ pc'[i] # pc[i] /\ i \notin markers )
                => /\ pc'[i] = "idle"
                   /\ last'[i] = [ op |-> "attach", err |-> "none" ]
                   /\ table_is_valid'[i] # "true"
          /\ ( pc[i] = "idle" /\ table_is_valid[i] # "true" /\ i \notin markers )
                => /\ table_is_valid'[i] # "true"
                   /\ i \notin markers'
                   /\ pc'[i] = "idle"
                   /\ last'[i] # last[i]
                        => /\ last'[i].op \in Operations
                           /\ last'[i].err = "INVALID_STATE"
                   /\ data' = data /\ metadata' = metadata /\ tables' = tables
                   /\ markers' = markers
                   /\ dataOps'[i] = 0
                   /\ result'[i] = << >> ]_vars

C9_Witness ==
    \E i \in Inst :
        /\ i \notin markers
        /\ table_is_valid[i] = "false"
        /\ pc[i] = "idle"
        /\ last[i] = [ op |-> "read", err |-> "INVALID_STATE" ]
        /\ DOMAIN data # {}
        /\ dataOps[i] = 0 /\ result[i] = << >>

\* ------------------------------------------------- claims: construction
\* C11: the constructor leaves as keys limit the operator maximum C when C
\* is not 0 and the limit L of the table is larger than C, and L in every
\* other case; nothing changes the limit afterwards.
C11_EffectiveKeysLimit ==
    [][ \A i \in Inst :
          /\ ( pc[i] = "unconstructed" /\ pc'[i] = "loop_exists" )
                => LET L == last'[i].args.keys_limit_
                       C == last'[i].args.config_keys_limit
                   IN  IF C # 0 /\ L > C
                       THEN keys_limit'[i] = C
                       ELSE keys_limit'[i] = L
          /\ pc[i] \notin { "unconstructed", "absent" }
                => keys_limit'[i] = keys_limit[i] ]_vars

C11_Witness ==
    \E i \in Inst :
        /\ pc[i] = "loop_exists" /\ iter[i] = 0
        /\ "args" \in DOMAIN last[i]
        /\ last[i].args.config_keys_limit # 0
        /\ last[i].args.keys_limit_ > last[i].args.config_keys_limit
        /\ keys_limit[i] = last[i].args.config_keys_limit

\* the arguments a of a construction are refused: no prefix configured, an
\* empty root path, one that does not start with '/', or a root path that
\* does not exist and must not be created
Refused(a) ==
    \/ a.path_prefix = << >>
    \/ extractZooKeeperPath(a.root_path_) = << >>
    \/ Head(extractZooKeeperPath(a.root_path_)) # "/"
    \/ ~root /\ ~a.create_missing_root_path

\* C12: a construction with refused arguments fails with BAD_ARGUMENTS in
\* its first step, and a step in which a construction fails on its
\* arguments leaves the root path, the data nodes, the metadata directory,
\* the tables directory, the markers, the dropped marker and the lock as
\* they are.
C12_ConfigErrorChangesNothing ==
    [][ \A i \in Inst :
          ( pc[i] = "unconstructed" /\ pc'[i] # pc[i] )
          => /\ Refused(last'[i].args)
                  => /\ pc'[i] = "failed"
                     /\ last'[i].err \in
                          { "BAD_ARGUMENTS: keeper_map_path_prefix is not defined",
                            "BAD_ARGUMENTS: database without UUID",
                            "BAD_ARGUMENTS: root_path should not be empty",
                            "BAD_ARGUMENTS: root_path should start with '/'",
                            "BAD_ARGUMENTS: path doesn't exist" }
             /\ pc'[i] = "failed"
                  => /\ zkVars' = zkVars
                     /\ table_is_valid'[i] # "true" ]_vars

C12_Witness ==
    \E i \in Inst :
        /\ pc[i] = "failed"
        /\ last[i].err = "BAD_ARGUMENTS: path doesn't exist"
        /\ ~root /\ ~metadata /\ ~tables /\ markers = {}

\* the table of instance i is there and nothing of a drop is left
FreshTable(i) ==
    /\ pc[i] = "idle" /\ last[i].err = "none"
    /\ table_is_valid[i] = "true"
    /\ metadata /\ tables /\ i \in markers
    /\ ~dropped /\ lock = NoLock

\* C13: a construction that enters its loop on the state an interrupted
\* drop left (dropped marker, no lock, no tables directory, any data nodes)
\* and runs alone gets the lock, removes all the data nodes, the dropped
\* marker and the metadata directory in one run of dropTable, and ends
\* valid with a new metadata directory, tables directory and its marker.
C13_ReclaimsInterruptedDrop ==
    \A i \in Inst :
        ( /\ pc[i] = "loop_exists" /\ iter[i] = 0
          /\ dropped /\ lock = NoLock /\ ~tables )
        ~> ( /\ FreshTable(i)
             /\ DOMAIN data = {}
             /\ reclaims[i] = 1
             /\ iter[i] = 0 )

C13_Witness ==
    \E i \in Inst :
        /\ FreshTable(i)
        /\ last[i].op = "create"
        /\ reclaims[i] = 1
        /\ DOMAIN pre[i] # {}
        /\ DOMAIN data = {}

\* the construction of instance i is over
Constructed(i) == pc[i] \in { "absent", "idle", "failed" }

InDropTable(i) == pc[i] \in { "dropTable", "dropTable_remove", "dropTable_multi" }

\* C14 (as stated): a constructor that finds the dropped marker and the lock
\* held by another process continues with the next iteration of its loop; it
\* does not go on to create the metadata node, the tables node or its marker
\* in that iteration
C14_LostRaceContinues ==
    [][\A i \in Inst :
          (pc[i] = "loop_lock" /\ dropped /\ lock \notin { NoLock, i } /\ pc'[i] # pc[i])
              => (pc'[i] = "loop_exists" /\ iter'[i] = iter[i] + 1)]_vars

\* C15: dropTable runs only in the process that holds the lock, so never in
\* two processes at a time
C15_ReclaimMutualExclusion ==
    /\ \A i \in Inst : InDropTable(i) => lock = i
    /\ Cardinality({ i \in Inst : InDropTable(i) }) <= 1

\* a process removes the leftover nodes while another one has asked for the
\* lock, or is about to ask for it
C15_Witness ==
    \E i, j \in Inst :
        /\ i # j
        /\ pc[i] = "dropTable_remove"
        /\ lock = i
        /\ pc[j] \in { "loop_lock", "drop_multi" }

\* C16: the last transaction of dropTable never finds one of its nodes
\* missing: it is never answered with ZNONODE and no operation ends with
\* LOGICAL_ERROR
C16_NoLogicalError ==
    \A i \in Inst :
        /\ last[i].err # "LOGICAL_ERROR"
        /\ pc[i] = "dropTable_multi" => ReclaimOpsCode # "ZNONODE"

\* the last transaction of dropTable is about to fail, because a table was
\* registered while the leftover nodes were removed
C16_Witness ==
    \E i \in Inst :
        /\ pc[i] = "dropTable_multi"
        /\ ReclaimOpsCode = "ZNOTEMPTY"
        /\ \E j \in Inst \ { i } : j \in markers

\* ----------------------------------------------- claims: the keys limit
\* the keys of the batch of sink i that have no data node
NewKeys(i) == { k \in DOMAIN expect[i].last : EncodedKey(k) \notin DOMAIN data }

\* the last step of the finalization of sink i
Finalizes(i) == pc[i] = "onFinish_multi" /\ pc'[i] # pc[i]

Rejected(i) == last'[i].err = "LIMIT_EXCEEDED" /\ data' = data

\* C17 (as stated): with a limit configured, a finalization whose count of
\* stored keys plus number of new keys is above the limit is rejected with
\* the capacity error and writes nothing, whatever the number of new keys,
\* zero included
C17_RejectsAboveLimit ==
    [][\A i \in Inst :
          ( /\ Finalizes(i)
            /\ keys_limit[i] # 0
            /\ Cardinality(DOMAIN data) + Cardinality(NewKeys(i)) > keys_limit[i] )
          => Rejected(i)]_vars

\* C17 (amended): with a limit configured, a finalization is rejected with
\* the capacity error, writing nothing, exactly when the batch has at least
\* one new key and the count of stored keys plus the number of new keys is
\* above the limit; a batch that only overwrites stored keys is committed
\* also when the count is already above the limit
C17_RejectsNewKeysAboveLimit ==
    [][\A i \in Inst :
          (Finalizes(i) /\ keys_limit[i] # 0)
          => /\ ( /\ NewKeys(i) # {}
                  /\ Cardinality(DOMAIN data) + Cardinality(NewKeys(i)) > keys_limit[i] )
                => Rejected(i)
             /\ ( \/ NewKeys(i) = {}
                  \/ Cardinality(DOMAIN data) + Cardinality(NewKeys(i)) <= keys_limit[i] )
                => /\ last'[i].err = "none"
                   /\ data' = [ n \in DOMAIN data \cup
                                      { EncodedKey(k) : k \in DOMAIN expect[i].last } |->
                                 IF \E k \in DOMAIN expect[i].last : EncodedKey(k) = n
                                 THEN serializeBinary(
                                        expect[i].last[CHOOSE k \in DOMAIN expect[i].last :
                                                          EncodedKey(k) = n])
                                 ELSE data[n] ]]_vars

\* a batch that only overwrites stored keys has been committed on a table
\* that holds more keys than its limit
C17_Witness ==
    \E i \in Inst :
        /\ Returned(i, "write") /\ last[i].err = "none"
        /\ keys_limit[i] # 0
        /\ Cardinality(DOMAIN pre[i]) > keys_limit[i]
        /\ DOMAIN expect[i].last # {}
        /\ \A k \in DOMAIN expect[i].last : EncodedKey(k) \in DOMAIN pre[i]
        /\ data # pre[i]

C21_ClientNeverStale ==
    /\ \A t \in Threads :
          /\ call[t].pc # "idle" => zookeeper_mutex = t
          /\ (call[t].pc = "idle" /\ call[t].ret # NullClient)
                => IF call[t].stale
                   THEN /\ call[t].connected /\ call[t].synced
                        /\ call[t].ret # call[t].cached
                        /\ call[t].ret > call[t].cached
                   ELSE /\ call[t].ret = call[t].cached
                        /\ ~call[t].connected /\ ~call[t].synced
    /\ established <= Cardinality(expired) + 1
    /\ zookeeper_client \in 0..established

\* a thread has replaced an expired handle and another thread has then
\* been given the new handle as it was cached
C21_Witness ==
    \E t, u \in Threads :
        /\ t # u
        /\ call[t].pc = "idle" /\ call[u].pc = "idle"
        /\ call[t].stale /\ call[t].cached # NullClient
        /\ call[t].ret # NullClient
        /\ call[u].ret = call[t].ret
        /\ ~call[u].stale

\* -------------------------------------------------- claims: the slices
\* C22: for a key list of n >= 1 distinct keys and num_streams >= 1, read
\* keeps the keys sorted and without duplicates and creates min(num_streams,
\* n) sources; their slices are contiguous, disjoint, cover the n keys, are
\* not empty, and any two differ in size by at most 1
C22_SlicesPartitionKeys ==
    [][\A i \in Inst :
          (pc[i] = "read_keys" /\ pc'[i] = "generate")
          => LET keys == container'[i]
                 n == Len(keys)
                 ps == pipes'[i]
             IN  /\ n >= 1
                 /\ \A j \in 1..(n - 1) : keys[j] # keys[j + 1]
                 /\ ~all_scan'[i] => \A j \in 1..(n - 1) : keys[j] < keys[j + 1]
                 /\ Len(ps) = Min(requested_streams'[i], n)
                 /\ ps[1].it = 0
                 /\ ps[Len(ps)].end = n
                 /\ \A t \in 1..(Len(ps) - 1) : ps[t].end = ps[t + 1].it
                 /\ \A t \in 1..Len(ps) : ps[t].it < ps[t].end
                 /\ \A t, u \in 1..Len(ps) :
                       (ps[t].end - ps[t].it) - (ps[u].end - ps[u].it) \in { -1, 0, 1 }]_vars

\* a read has cut three keys into two slices
C22_Witness ==
    \E i \in Inst :
        /\ pc[i] = "generate"
        /\ Len(container[i]) = 3
        /\ Len(pipes[i]) = 2
        /\ requested_streams[i] = 2
        /\ pipes[i][1].end - pipes[i][1].it = 1
        /\ pipes[i][2].end - pipes[i][2].it = 2

\* --------------------------------------------------- claims: a source
\* the keys at position j of the key list of instance i that have a data node
Wanted(i, j) ==
    { k \in Keys :
        /\ EncodedKey(k) \in DOMAIN data
        /\ IF all_scan[i] THEN container[i][j] = EncodedKey(k) ELSE container[i][j] = k }

\* the position of key k in the key list of instance i
PositionOf(i, k) ==
    CHOOSE j \in 1..Len(container[i]) :
        IF all_scan[i] THEN container[i][j] = EncodedKey(k) ELSE container[i][j] = k

Ceil(n, b) == (n + b - 1) \div b

\* f[1] + ... + f[n]
RECURSIVE SumTo(_, _)
SumTo(f, n) == IF n = 0 THEN 0 ELSE f[n] + SumTo(f, n - 1)

\* the first position of slice t
BeginOf(ps, t) == IF t = 1 THEN 0 ELSE ps[t - 1].end

\* C23: a call of generate on a slice that is not at its end fetches the
\* next min(max_block_size, remaining) keys of the slice, in their order,
\* and moves the slice on by as many; it leaves the other slices where they
\* are; a call at the end of the slice fetches nothing and ends the
\* source; so a read has sent ceil(n / max_block_size) fetches for each of
\* its slices, n the length of the slice
C23_FetchesInBatches ==
    /\ [][\A i \in Inst :
            (pc[i] = "generate" /\ pipes'[i] # pipes[i])
            => \E t \in DOMAIN pipes[i] :
                 LET p == pipes[i][t]
                     m == Min(max_block_size[i], p.end - p.it)
                     got == SubSeq(result'[i], Len(result[i]) + 1, Len(result'[i]))
                 IN  /\ \A u \in DOMAIN pipes[i] \ { t } : pipes'[i][u] = pipes[i][u]
                     /\ SubSeq(result'[i], 1, Len(result[i])) = result[i]
                     /\ IF p.it < p.end
                        THEN /\ pipes'[i][t] = [ p EXCEPT !.it = p.it + m ]
                             /\ dataOps'[i] = dataOps[i] + 1
                             /\ Len(got) =
                                   Cardinality({ j \in (p.it + 1)..(p.it + m) : Wanted(i, j) # {} })
                             /\ \A a \in 1..Len(got) :
                                   /\ got[a].k \in Wanted(i, PositionOf(i, got[a].k))
                                   /\ PositionOf(i, got[a].k) \in (p.it + 1)..(p.it + m)
                                   /\ got[a].v = deserializeBinary(data[EncodedKey(got[a].k)])
                             /\ \A a, b \in 1..Len(got) :
                                   a < b => PositionOf(i, got[a].k) < PositionOf(i, got[b].k)
                        ELSE /\ pipes'[i][t].done
                             /\ got = << >>
                             /\ dataOps'[i] = dataOps[i]]_vars
    /\ [](\A i \in Inst :
            (Returned(i, "read") /\ last[i].err = "none" /\ pipes[i] # << >>)
            => LET ps == pipes[i]
                   fetches == [ t \in DOMAIN ps |->
                                  Ceil(ps[t].end - BeginOf(ps, t), max_block_size[i]) ]
               IN  dataOps[i] = (IF all_scan[i] THEN 1 ELSE 0) + SumTo(fetches, Len(ps)))

\* a scan of three keys by one source with max_block_size 2 has taken two
\* fetches
C23_Witness ==
    \E i \in Inst :
        /\ Returned(i, "read") /\ last[i].err = "none"
        /\ all_scan[i]
        /\ Len(pipes[i]) = 1
        /\ pipes[i][1].end = 3
        /\ max_block_size[i] = 2
        /\ dataOps[i] = 3

\* ------------------------------------------------ claims: fetch by keys
\* the key lists of a fetch: names of data nodes and the metadata name, a
\* name more than once too
NameLists == UNION { [1..n -> EncodedNames \cup { MetadataName }] : n \in 0..MaxReq }

\* the positions of a key list whose key has a data node
Present(names) == { j \in 1..Len(names) : names[j] \in DOMAIN data }

\* C24: a fetch without a null_map returns one row for each requested key
\* that has a data node, with the key and the stored value, no row for a
\* key that has none, and the rows in the order of the requested keys
C24_RowsOfExistingKeys ==
    \A names \in NameLists :
        LET out == getBySerializedKeys(names, FALSE, data).rows IN
            /\ Len(out) = Cardinality(Present(names))
            /\ \A j \in Present(names) :
                  LET a == Cardinality({ l \in Present(names) : l <= j }) IN
                      /\ EncodedKey(out[a].k) = names[j]
                      /\ serializeBinary(out[a].v) = data[names[j]]

\* a read of two keys, of which the second only is stored, has returned
\* one row
C24_Witness ==
    \E i \in Inst :
        /\ Returned(i, "read") /\ last[i].err = "none"
        /\ ~all_scan[i]
        /\ Len(container[i]) = 2
        /\ Len(result[i]) = 1
        /\ result[i][1].k = container[i][2]
        /\ DOMAIN data = { EncodedKey(container[i][2]) }

\* C25: a fetch one of whose futures is not ready at the deadline or holds
\* an error other than ZNONODE ends with an exception and returns no rows,
\* those of the keys that were answered neither: a source adds nothing to
\* the rows of its read, which is over, and getByKeys returns no chunk; a
\* fetch all of whose futures are answered ends without an exception
C25_FetchFailsAsAWhole ==
    [][\A i \in Inst :
          LET failed == \E j \in DOMAIN values'[i] : values'[i][j] \in Faults IN
              /\ (pc[i] = "generate" /\ dataOps'[i] = dataOps[i] + 1)
                    => IF failed
                       THEN /\ result'[i] = result[i]
                            /\ pc'[i] = "idle"
                            /\ last'[i].err \in { "LOGICAL_ERROR", "KEEPER_EXCEPTION" }
                       ELSE last'[i].err = "running"
              /\ (pc[i] = "idle" /\ last'[i].op = "getByKeys")
                    => IF failed
                       THEN /\ result'[i] = << >>
                            /\ last'[i].err \in { "LOGICAL_ERROR", "KEEPER_EXCEPTION" }
                       ELSE last'[i].err = "none"]_vars

\* a source fetched two stored keys at once, the first was answered and the
\* second was not ready in time: the read has ended without a row
C25_Witness ==
    \E i \in Inst :
        /\ Returned(i, "read") /\ last[i].err = "LOGICAL_ERROR"
        /\ Len(values[i]) = 2
        /\ values[i][1] = "answer" /\ values[i][2] = "timeout"
        /\ ~all_scan[i]
        /\ Len(container[i]) = 2
        /\ \A j \in 1..2 : EncodedKey(container[i][j]) \in DOMAIN data
        /\ result[i] = << >>

\* ----------------------------------------------------- claims: truncate
\* C26: truncate on a valid table that no other writer uses removes every
\* data node and leaves ch_metadata, the tables directory, every table
\* marker and the validity of the table as they are; the operation after
\* it is not rejected, a full scan that starts on the empty root path
\* returns no row, and a write that starts on it is committed
C26_TruncateKeepsMetadata ==
    /\ [][\A i \in Inst :
            /\ pc[i] \in { "truncate_list", "truncate_remove" }
                  => /\ metadata' = metadata /\ tables' = tables /\ markers' = markers
                     /\ dropped' = dropped /\ lock' = lock
                     /\ table_is_valid' = table_is_valid
            /\ (Returned(i, "truncate") /\ last[i].err = "none" /\ last'[i] # last[i])
                  => last'[i].err \in { "running", "none" }]_vars
    /\ [](\A i \in Inst :
            /\ (Returned(i, "truncate") /\ last[i].err = "none")
                  => /\ DOMAIN data = {}
                     /\ metadata /\ tables /\ i \in markers
                     /\ table_is_valid[i] = "true"
            /\ (Returned(i, "read") /\ last[i].err = "none" /\ all_scan[i] /\ DOMAIN pre[i] = {})
                  => result[i] = << >>
            /\ (Returned(i, "write") /\ DOMAIN pre[i] = {} /\ keys_limit[i] = 0)
                  => /\ last[i].err = "none"
                     /\ HoldsExactly(data, expect[i].last))

\* a truncate of a table that held rows has returned
C26_Witness ==
    \E i \in Inst :
        /\ Returned(i, "truncate") /\ last[i].err = "none"
        /\ DOMAIN pre[i] # {}
        /\ DOMAIN data = {}
        /\ metadata /\ tables /\ i \in markers

\* ------------------------------------------------ claims: after a drop
\* the drop of table i has returned and the marker of the table is gone
Dropped(i) == pc[i] = "idle" /\ last[i].op = "drop" /\ i \notin markers

\* an operation that table i began after its drop is running
AfterDrop(i) ==
    pc[i] # "idle" /\ last[i].op # "drop" /\ table_is_valid[i] = "true" /\ i \notin markers

\* C27: an operation that a table starts after its drop removed its marker
\* is rejected at its validity check, and no step of such an operation
\* creates, changes or removes a node
C27_DroppedIsTerminal ==
    [][\A i \in Inst :
          /\ (Dropped(i) /\ last'[i] # last[i])
                => /\ last'[i].err \notin { "running", "none" }
                   /\ zkVars' = zkVars
          /\ (AfterDrop(i) /\ pc'[i] # pc[i]) => zkVars' = zkVars]_vars

\* ------------------------------------- claims: reclaim and live tables
\* C28: the dropped marker and the tables directory never exist at the
\* same time
C28_DroppedExcludesTables == ~(dropped /\ tables)

\* C29: a step removes a data node only when it is the removal of a
\* truncate, or the recursive removal of dropTable running while no table
\* marker exists
C29_ReclaimSparesLiveTables ==
    [][(\E n \in DOMAIN data : n \notin DOMAIN data')
          => \E i \in Inst :
                /\ pc'[i] # pc[i]
                /\ \/ pc[i] = "truncate_remove"
                   \/ pc[i] = "dropTable_remove" /\ markers = {}]_vars

\* C30: the marker of a table is removed by no step but the removal in
\* that table's own drop, and a table that became valid and has not been
\* dropped has its marker
C30_MarkerRemovedByOwnDropOnly ==
    /\ [][\A i \in Inst :
            (i \in markers /\ i \notin markers')
                => pc[i] = "drop_remove" /\ pc'[i] = "drop_getChildren"]_vars
    /\ [](\A i \in Inst :
            (table_is_valid[i] = "true" /\ last[i].op # "drop") => i \in markers)

\* a valid table has its marker after another table on the root path was
\* dropped and ran the reclaim
C30_Witness ==
    \E i, j \in Inst :
        /\ i # j
        /\ table_is_valid[i] = "true" /\ i \in markers /\ last[i].op \in { "write", "truncate" }
        /\ pc[j] = "idle" /\ last[j].op = "drop" /\ j \notin markers
        /\ reclaims[j] > 0

\* ------------------------------------------------- claims: keys limit
\* C31: a table with a keys limit above 0 whose writes are finalized one
\* after the other, on a root path that was empty, never has more data
\* nodes under the root path than its limit
C31_CountWithinLimit ==
    \A i \in Inst :
        keys_limit[i] > 0 => Cardinality(DOMAIN data) <= keys_limit[i]

\* a write of new keys was rejected on a table that is full
C31_Witness ==
    \E i \in Inst :
        /\ keys_limit[i] > 0
        /\ Returned(i, "write") /\ last[i].err = "LIMIT_EXCEEDED"
        /\ Cardinality(DOMAIN data) = keys_limit[i]

\* C32: when the operator maximum C is above 0, the constructor leaves a
\* keys limit between 1 and C, whatever limit was requested for the table
C32_LimitWithinOperatorMaximum ==
    [][\A i \in Inst :
          (pc[i] = "unconstructed" /\ pc'[i] = "loop_exists"
              /\ last'[i].args.config_keys_limit > 0)
                => keys_limit'[i] \in 1..last'[i].args.config_keys_limit]_vars

\* ---------------------------------------------- claims: no stuck state
\* every operation of the tables other than i has returned
Alone(i) == \A j \in Inst \ {i} : pc[j] \in { "absent", "unconstructed", "idle", "failed" }

\* C33: a construction that is at the start of its loop when every other
\* operation has returned, and goes on alone, ends with a valid table
C33_ConstructionAloneSucceeds ==
    \A i \in Inst :
        (pc[i] = "loop_exists" /\ iter[i] = 0 /\ Alone(i))
            ~> (pc[i] = "idle" /\ last[i].op = "create" /\ table_is_valid[i] = "true")

====
